---------------------------- MODULE Spec2Model ----------------------------
(***************************************************************************)
(* Gas Town control plane: message deduplicator, mail drainer, log         *)
(* rotator and retention engine ("wisp reaper"), modelled from the Go      *)
(* sources.  Each subsystem has its own specification over a shared set    *)
(* of variables; the variables of the other subsystems stay unchanged.     *)
(***************************************************************************)
EXTENDS Integers, Sequences, FiniteSets, TLC

(***************************************************************************)
(* Bounds of the model.                                                    *)
(***************************************************************************)
\* number of concurrent patrol goroutines calling the deduplicator
NumTasks == 3
\* total number of AlreadyProcessed calls in one behaviour
MaxCalls == 4
\* number of messages in the mailbox that is drained
NumMsgs == 2
\* logRotationMaxSize (100 MiB in the source), scaled down to bytes the model
\* can enumerate; it is also the largest log the child ever writes
logRotationMaxSize == 2
\* largest K of a <path>.K.gz file that may exist before the first rotation
MaxSuffix == 4
\* number of Rotate/ForceRotate runs in one behaviour
MaxRuns == 2
\* number of failing system calls or SQL statements injected in one behaviour
MaxFaults == 1
\* number of Rotate/ForceRotate runs in one behaviour that starts without
\* backups: the four rotations of TestCopyTruncateRotate_ShiftsBackups
FreshRuns == 4
\* deleteBatchSize (100 in the source), scaled down
deleteBatchSize == 1
\* number of rows of the wisps table of a database
NumWisps == 2
\* number of rows of the issues table of a database
NumIssues == 2
\* number of rows of the dependencies table of a database
MaxDeps == 1
\* ticks fired per patrol
MaxTicks == 2
\* concurrent calls of gt daemon start
NumStarts == 2
\* polecats that run gt done
NumPolecats == 1
\* gt done runs that error out or crash, over all polecats
MaxCrashes == 1
\* calls of gt daemon clear-backoff
MaxClears == 2
\* the largest number of consecutive crashes the restart tracker holds for
\* an agent
MaxCrashCount == 2

VARIABLES
    \* ---- witness/dedup.go: MessageDeduplicator
    processed,   \* d.processed: the set of ids with processed[id] = true
    maxSize,     \* d.maxSize: the capacity hint
    mu,          \* d.mu: the task holding the mutex, or NoTask
    dpc,         \* per task: position inside AlreadyProcessed
    darg,        \* per task: the messageID argument of the call in progress
    dseen,       \* per task: what the call read from processed[messageID]
    nCalls,      \* number of calls started so far
    nFalse,      \* per id: number of calls that returned false
    nTrue,       \* per id: number of calls that returned true
    \* ---- cmd/mail_drain.go: runMailDrain
    mailbox,        \* the messages mailbox.List() returns, by message id
    mailDrainAll,   \* --all
    mailDrainDryRun,\* --dry-run
    drpc,           \* position inside runMailDrain
    messages,       \* the messages slice: what mailbox.List() returned
    candidates,     \* the drainCandidate list, in the order it was appended
    cidx,           \* index of the next candidate of the archive loop
    archived,       \* archived counter
    archiveErrors,  \* len(archiveErrors)
    deleteCalls,    \* per message id: number of mailbox.Delete calls made
    drainResult,    \* "none" while running, then "ok" (nil) or "error"
    \* ---- daemon/log_rotation.go: RotateLogs, ForceRotateLogs
    logs,        \* per managed path: NoFile, or the log file [ino, data]
    gz,          \* per managed path and K: NoFile, or <path>.K.gz [mtime, data]
    childFd,     \* per managed path: the inode the child process holds open
    nextByte,    \* the next byte the child process writes
    clock,       \* the filesystem's time
    rpc,         \* position inside RotateLogs / copyTruncateRotate
    rforce,      \* TRUE inside ForceRotateLogs, FALSE inside RotateLogs
    logFiles,    \* the list collectDoltLogFiles returned
    ridx,        \* index of the current logPath in logFiles
    rotated,     \* result.Rotated
    skipped,     \* result.Skipped
    rerrors,     \* result.Errors, by the path each error names
    nRuns,       \* number of rotation runs started
    nFaults,     \* number of failing system calls so far
    entryStrays, \* history: per path, the K > maxBackups for which <path>.K.gz
                 \* existed when copyTruncateRotate was entered in this run
    rcmd,        \* position inside runDaemonRotateLogs (cmd/daemon.go)
    rexit,       \* exit status of `gt daemon rotate-logs`
    \* ---- daemon/wisp_reaper.go: reapWisps
    patrolConfig,      \* d.patrolConfig
    wisps,             \* per database: the wisps table, by id
    wisp_dependencies, \* per database: the rows of wisp_dependencies
    issues,            \* per database: the issues table, by id
    labels,            \* per database: the rows of labels
    dependencies,      \* per database: the rows of dependencies
    auxRows,           \* per database and other auxiliary table: the issue_id
                       \* values that have rows in it
    autocommit,        \* @@autocommit of the connection in use
    commits,           \* the DOLT_COMMIT calls made, in order
    rc,                \* the reaperCycle
    wpc,               \* position inside reapWisps
    dbIdx,             \* index into rc.databases of the loop in progress
    reapErrors,        \* reapErrors of reaperReap
    purgeErrors,       \* purgeErrors of reaperPurge
    autoCloseErrors,   \* autoCloseErrors of reaperAutoClose
    digestTotal,       \* digestTotal of purgeClosedWispsInDB, count of purgeOldMailInDB
    totalDeleted,      \* totalDeleted of batchDeleteRows
    nBatches,          \* number of batches batchDeleteRows has deleted
    lastErr,           \* the error the last per-database function returned
    mol,               \* the steps recorded on the molecule, in order
    wfaults,           \* number of failing SQL statements so far
    dbCalls,           \* history: the per-database calls that have returned, in
                       \* order, each with whether it changed a row and whether
                       \* it returned an error
    \* ---- the patrol scheduler of the daemon and daemon/doctor_dog.go
    ticks,       \* per patrol: number of ticks its ticker has fired
    started,     \* per patrol: number of ticks that invoked the handler
    dropped,     \* per patrol: number of ticks that were dropped
    running,     \* per patrol: number of handler invocations in progress
    dogpc,       \* position inside runDoctorDog
    dogMols,     \* the rootID of each molecule runDoctorDog poured, in order
    \* ---- cmd/daemon.go: gt daemon start
    pidFile,     \* the PID in <town>/daemon/daemon.pid, written under the file lock
    daemons,     \* per PID: the state of that gt daemon run process
    startpc,     \* per call of runDaemonStart: its position
    startResult, \* per call of runDaemonStart: what it printed or returned
    \* ---- docs/design/polecat-self-managed-completion.md: gt done, refinery
    agentState,  \* per polecat: agent_state on its agent bead
    donepc,      \* per polecat: position of its session inside gt done
    run,         \* per polecat: number of gt done runs started so far
    doneIntent,  \* per polecat: the done-intent label is set
    hookBead,    \* per polecat: hook_bead is set
    pushed,      \* per polecat: its branch is on origin
    mrBead,      \* per polecat: status of its MR bead, "none" before it exists
    metadata,    \* per polecat: completion metadata is on the agent bead
    nudges,      \* MERGE_READY nudges in flight, by the polecat of the MR
    witnessUp,   \* the witness is running
    refpc,       \* position of the refinery's patrol
    queue,       \* the MRs the refinery's current patrol cycle found
    nudgeSent,   \* history: polecats whose gt done sent the nudge
    nudgesLost,  \* history: polecats whose nudge was lost
    idleWrites,  \* history, per polecat: the runs that wrote agent_state = idle
    ended,       \* history, per polecat: the step at which its last run errored
                 \* out or crashed, "" while the run has not
    polls,       \* history, per polecat: patrol polls that found its MR open
    \* ---- cmd/daemon.go: gt daemon clear-backoff, and the restart tracker
    crashDisk,     \* per agent: the crash-loop counter persisted on disk
    crashMem,      \* per agent: the counter in the daemon's restart tracker
    cbpc,          \* position inside runDaemonClearBackoff
    cbAgent,       \* agentID of the call in progress
    cbResult,      \* what the last call printed or returned
    reloadSignals, \* the reload signals sent to the daemon, in order, each
                   \* with the call that sent it and that call's agentID
    nHandled,      \* number of reload signals the daemon has handled
    nClears        \* number of calls of runDaemonClearBackoff so far

dedupVars == <<processed, maxSize, mu, dpc, darg, dseen, nCalls, nFalse, nTrue>>

drainVars == <<mailbox, mailDrainAll, mailDrainDryRun, drpc, messages, candidates, cidx,
               archived, archiveErrors, deleteCalls, drainResult>>

rotVars == <<logs, gz, childFd, nextByte, clock, rpc, rforce, logFiles, ridx,
             rotated, skipped, rerrors, nRuns, nFaults, entryStrays, rcmd, rexit>>

dbTables == <<wisps, wisp_dependencies, issues, labels, dependencies, auxRows>>

reapVars == <<patrolConfig, dbTables, autocommit, commits, rc, wpc, dbIdx, reapErrors,
              purgeErrors, autoCloseErrors, digestTotal, totalDeleted, nBatches,
              lastErr, mol, wfaults, dbCalls>>

schedVars == <<ticks, started, dropped, running, dogpc, dogMols>>

startVars == <<pidFile, daemons, startpc, startResult>>

doneVars == <<agentState, donepc, run, doneIntent, hookBead, pushed, mrBead, metadata,
              nudges, witnessUp, refpc, queue, nudgeSent, nudgesLost, idleWrites,
              ended, polls>>

backoffVars == <<crashDisk, crashMem, cbpc, cbAgent, cbResult, reloadSignals, nHandled,
                 nClears>>

vars == <<dedupVars, drainVars, rotVars, reapVars, schedVars, startVars, doneVars,
          backoffVars>>

\* what the actions of one subsystem leave alone
dedupOthers == <<drainVars, rotVars, reapVars, schedVars, startVars, doneVars, backoffVars>>
drainOthers == <<dedupVars, rotVars, reapVars, schedVars, startVars, doneVars, backoffVars>>
rotOthers == <<dedupVars, drainVars, reapVars, schedVars, startVars, doneVars, backoffVars>>
reapOthers == <<dedupVars, drainVars, rotVars, schedVars, startVars, doneVars, backoffVars>>
schedOthers == <<dedupVars, drainVars, rotVars, startVars, doneVars, backoffVars>>
startOthers == <<dedupVars, drainVars, rotVars, reapVars, schedVars, doneVars, backoffVars>>
doneOthers == <<dedupVars, drainVars, rotVars, reapVars, schedVars, startVars, backoffVars>>
backoffOthers == <<dedupVars, drainVars, rotVars, reapVars, schedVars, doneVars>>

\* strings.HasPrefix
HasPrefix(s, prefix) ==
    Len(s) >= Len(prefix) /\ SubSeq(s, 1, Len(prefix)) = prefix

(***************************************************************************)
(* Message deduplicator (internal/witness/dedup.go).                       *)
(***************************************************************************)
Tasks == 1..NumTasks
NoTask == 0
MessageIDs == {"", "m1", "m2"}

\* NewMessageDeduplicator: a non-positive capacity hint becomes 10000.
NewMessageDeduplicator(hint) == IF hint <= 0 THEN 10000 ELSE hint

\* d.mu.Lock() can proceed only when nobody holds the mutex.
MutexIgnored(t) == TRUE
MutexFree(t) == mu = NoTask

\* len(d.processed)
Size == Cardinality(processed)

DedupIdle ==
    /\ processed = {}
    /\ maxSize = NewMessageDeduplicator(0)
    /\ mu = NoTask
    /\ dpc = [t \in Tasks |-> "idle"]
    /\ darg = [t \in Tasks |-> ""]
    /\ dseen = [t \in Tasks |-> FALSE]
    /\ nCalls = 0
    /\ nFalse = [i \in MessageIDs |-> 0]
    /\ nTrue = [i \in MessageIDs |-> 0]

DedupInit ==
    /\ processed = {}
    /\ \E hint \in {0, 1} : maxSize = NewMessageDeduplicator(hint)
    /\ mu = NoTask
    /\ dpc = [t \in Tasks |-> "idle"]
    /\ darg = [t \in Tasks |-> ""]
    /\ dseen = [t \in Tasks |-> FALSE]
    /\ nCalls = 0
    /\ nFalse = [i \in MessageIDs |-> 0]
    /\ nTrue = [i \in MessageIDs |-> 0]

\* AlreadyProcessed without the test for the empty id
DedupCallAnyId(t, id) ==
    /\ dpc[t] = "idle"
    /\ nCalls < MaxCalls
    /\ nCalls' = nCalls + 1
    /\ darg' = [darg EXCEPT ![t] = id]
    /\ dpc' = [dpc EXCEPT ![t] = "lock"]
    /\ UNCHANGED <<processed, maxSize, mu, dseen, nFalse, nTrue>>
    /\ UNCHANGED dedupOthers

\* A task enters AlreadyProcessed(id).  The empty id returns false at once,
\* before the mutex is touched.
DedupCall(t, id) ==
    /\ dpc[t] = "idle"
    /\ nCalls < MaxCalls
    /\ nCalls' = nCalls + 1
    /\ darg' = [darg EXCEPT ![t] = id]
    /\ IF id = ""
         THEN /\ nFalse' = [nFalse EXCEPT ![id] = @ + 1]
              /\ dpc' = dpc
         ELSE /\ dpc' = [dpc EXCEPT ![t] = "lock"]
              /\ nFalse' = nFalse
    /\ UNCHANGED <<processed, maxSize, mu, dseen, nTrue>>
    /\ UNCHANGED dedupOthers

\* d.mu.Lock()
DedupLock(t) ==
    /\ dpc[t] = "lock"
    /\ MutexFree(t)
    /\ mu' = t
    /\ dpc' = [dpc EXCEPT ![t] = "check"]
    /\ UNCHANGED <<processed, maxSize, darg, dseen, nCalls, nFalse, nTrue>>
    /\ UNCHANGED dedupOthers

\* if d.processed[messageID] { return true }
DedupCheck(t) ==
    /\ dpc[t] = "check"
    /\ dseen' = [dseen EXCEPT ![t] = (darg[t] \in processed)]
    /\ dpc' = [dpc EXCEPT ![t] = IF darg[t] \in processed THEN "unlock" ELSE "set"]
    /\ UNCHANGED <<processed, maxSize, mu, darg, nCalls, nFalse, nTrue>>
    /\ UNCHANGED dedupOthers

\* a set that empties the map first when it has reached the capacity hint
DedupSetEvicting(t) ==
    /\ dpc[t] = "set"
    /\ processed' = IF Cardinality(processed) >= maxSize
                      THEN {darg[t]}
                      ELSE processed \cup {darg[t]}
    /\ dpc' = [dpc EXCEPT ![t] = "unlock"]
    /\ UNCHANGED <<maxSize, mu, darg, dseen, nCalls, nFalse, nTrue>>
    /\ UNCHANGED dedupOthers

\* d.processed[messageID] = true; return false
DedupSet(t) ==
    /\ dpc[t] = "set"
    /\ processed' = processed \cup {darg[t]}
    /\ dpc' = [dpc EXCEPT ![t] = "unlock"]
    /\ UNCHANGED <<maxSize, mu, darg, dseen, nCalls, nFalse, nTrue>>
    /\ UNCHANGED dedupOthers

\* the deferred d.mu.Unlock() and the return of the value decided above
DedupUnlock(t) ==
    /\ dpc[t] = "unlock"
    /\ mu' = NoTask
    /\ dpc' = [dpc EXCEPT ![t] = "idle"]
    /\ IF dseen[t]
         THEN /\ nTrue' = [nTrue EXCEPT ![darg[t]] = @ + 1]
              /\ nFalse' = nFalse
         ELSE /\ nFalse' = [nFalse EXCEPT ![darg[t]] = @ + 1]
              /\ nTrue' = nTrue
    /\ UNCHANGED <<processed, maxSize, darg, dseen, nCalls>>
    /\ UNCHANGED dedupOthers

DedupNext ==
    \/ \E t \in Tasks, id \in MessageIDs : DedupCall(t, id)
    \/ \E t \in Tasks : DedupLock(t)
    \/ \E t \in Tasks : DedupCheck(t)
    \/ \E t \in Tasks : DedupSet(t)
    \/ \E t \in Tasks : DedupUnlock(t)

(***************************************************************************)
(* Mail drainer (internal/cmd/mail_drain.go).                              *)
(***************************************************************************)
drainableSubjects ==
    <<"POLECAT_DONE", "POLECAT_STARTED", "LIFECYCLE:", "MERGED",
      "MERGE_READY", "MERGE_FAILED", "SWARM_START">>

isDrainableMessage(subject) ==
    \E i \in 1..Len(drainableSubjects) : HasPrefix(subject, drainableSubjects[i])

\* --max-age, in minutes (the flag's default)
mailDrainMaxAge == 30
\* time.Now() of the drain, in minutes
DrainNow == mailDrainMaxAge + 1
\* cutoff := time.Now().Add(-maxAge)
DrainCutoff == DrainNow - mailDrainMaxAge
\* message timestamps: older than the cutoff, at the cutoff, younger
Timestamps == {DrainCutoff - 1, DrainCutoff, DrainCutoff + 1}
Subjects == {"MERGE_READY furiosa", "HELP: stuck", "HANDOFF ctx", "Status check"}
MsgIds == 1..NumMsgs
Message == [Subject : Subjects, Timestamp : Timestamps, Wisp : BOOLEAN, Read : BOOLEAN]

\* msg.Timestamp.After(cutoff), msg.Timestamp.Before(cutoff)
After(ts, cutoff) == ts > cutoff
Before(ts, cutoff) == ts < cutoff

\* the first loop of runMailDrain: protocol messages
ProtocolCandidate(msg) ==
    /\ isDrainableMessage(msg.Subject)
    /\ ~(~mailDrainAll /\ After(msg.Timestamp, DrainCutoff))

\* the second loop of runMailDrain: read wisps that are not protocol messages
ReadWispCandidate(msg) ==
    /\ ~isDrainableMessage(msg.Subject)
    /\ msg.Wisp /\ msg.Read
    /\ (mailDrainAll \/ Before(msg.Timestamp, DrainCutoff))

\* messages, err := mailbox.List(): the ids of the mailbox in list order
RECURSIVE ListIds(_)
ListIds(ids) ==
    IF ids = {} THEN <<>>
    ELSE LET m == CHOOSE x \in ids : \A y \in ids : x <= y
         IN <<m>> \o ListIds(ids \ {m})

ProtocolReason(msg) == IF msg.Wisp THEN "wisp+protocol" ELSE "protocol"

\* var candidates []drainCandidate after both loops
DrainCandidates(box) ==
    LET listed == ListIds(DOMAIN box)
        first == SelectSeq(listed, LAMBDA m : ProtocolCandidate(box[m]))
        second == SelectSeq(listed, LAMBDA m : ReadWispCandidate(box[m]))
    IN [i \in 1..Len(first) |-> [id |-> first[i], Reason |-> ProtocolReason(box[first[i]])]]
       \o [i \in 1..Len(second) |-> [id |-> second[i], Reason |-> "read-wisp"]]

DrainIdle ==
    /\ mailbox = <<>>
    /\ mailDrainAll = FALSE
    /\ mailDrainDryRun = FALSE
    /\ drpc = "done"
    /\ messages = <<>>
    /\ candidates = <<>>
    /\ cidx = 1
    /\ archived = 0
    /\ archiveErrors = 0
    /\ deleteCalls = <<>>
    /\ drainResult = "none"

DrainInit ==
    /\ \E n \in 0..NumMsgs : mailbox \in [1..n -> Message]
    /\ mailDrainAll \in BOOLEAN
    /\ mailDrainDryRun \in BOOLEAN
    /\ drpc = "start"
    /\ messages = <<>>
    /\ candidates = <<>>
    /\ cidx = 1
    /\ archived = 0
    /\ archiveErrors = 0
    /\ deleteCalls = [m \in DOMAIN mailbox |-> 0]
    /\ drainResult = "none"

\* the same with mailboxes of two kinds of subject only, a protocol message
\* and an ordinary one
PlainSubjects == {"MERGE_READY furiosa", "Status check"}
DrainInitPlain ==
    /\ DrainInit
    /\ \A m \in DOMAIN mailbox : mailbox[m].Subject \in PlainSubjects

\* runMailDrain up to the archive loop without the dry-run return
DrainSelectIgnoringDryRun(listOk) ==
    /\ drpc = "start"
    /\ IF ~listOk
         THEN /\ drainResult' = "error"
              /\ drpc' = "done"
              /\ UNCHANGED <<messages, candidates>>
         ELSE IF DOMAIN mailbox = {}
         THEN /\ drainResult' = "ok"
              /\ drpc' = "done"
              /\ UNCHANGED <<messages, candidates>>
         ELSE /\ messages' = mailbox
              /\ candidates' = DrainCandidates(messages')
              /\ IF Len(candidates') = 0
                   THEN drainResult' = "ok" /\ drpc' = "done"
                   ELSE drainResult' = drainResult /\ drpc' = "archive"
    /\ UNCHANGED <<mailbox, mailDrainAll, mailDrainDryRun, cidx, archived,
                   archiveErrors, deleteCalls>>
    /\ UNCHANGED drainOthers

\* runMailDrain up to the archive loop: list, select, and the three early
\* returns (empty inbox, no candidates, dry run).  listOk = FALSE is
\* mailbox.List() (or getMailbox) returning an error.
DrainSelect(listOk) ==
    /\ drpc = "start"
    /\ IF ~listOk
         THEN /\ drainResult' = "error"
              /\ drpc' = "done"
              /\ UNCHANGED <<messages, candidates>>
         ELSE IF DOMAIN mailbox = {}
         THEN /\ drainResult' = "ok"
              /\ drpc' = "done"
              /\ UNCHANGED <<messages, candidates>>
         ELSE /\ messages' = mailbox
              /\ candidates' = DrainCandidates(messages')
              /\ IF Len(candidates') = 0 \/ mailDrainDryRun
                   THEN drainResult' = "ok" /\ drpc' = "done"
                   ELSE drainResult' = drainResult /\ drpc' = "archive"
    /\ UNCHANGED <<mailbox, mailDrainAll, mailDrainDryRun, cidx, archived,
                   archiveErrors, deleteCalls>>
    /\ UNCHANGED drainOthers

\* one iteration of the archive loop: mailbox.Delete(c.Message.ID), which
\* removes the message (deleteOk) or fails and leaves it
DrainDelete(deleteOk) ==
    /\ drpc = "archive"
    /\ cidx <= Len(candidates)
    /\ LET id == candidates[cidx].id IN
       /\ deleteCalls' = [deleteCalls EXCEPT ![id] = @ + 1]
       /\ IF deleteOk
            THEN /\ mailbox' = [m \in DOMAIN mailbox \ {id} |-> mailbox[m]]
                 /\ archived' = archived + 1
                 /\ archiveErrors' = archiveErrors
            ELSE /\ mailbox' = mailbox
                 /\ archived' = archived
                 /\ archiveErrors' = archiveErrors + 1
    /\ cidx' = cidx + 1
    /\ UNCHANGED <<mailDrainAll, mailDrainDryRun, drpc, messages, candidates,
                   drainResult>>
    /\ UNCHANGED drainOthers

\* a loop that is left at the first failed deletion
DrainReturnAtFirstError ==
    /\ drpc = "archive"
    /\ cidx > Len(candidates) \/ archiveErrors > 0
    /\ drainResult' = IF archiveErrors > 0 THEN "error" ELSE "ok"
    /\ drpc' = "done"
    /\ UNCHANGED <<mailbox, mailDrainAll, mailDrainDryRun, messages, candidates,
                   cidx, archived, archiveErrors, deleteCalls>>
    /\ UNCHANGED drainOthers

\* after the loop: an error iff some deletion failed
DrainReturn ==
    /\ drpc = "archive"
    /\ cidx > Len(candidates)
    /\ drainResult' = IF archiveErrors > 0 THEN "error" ELSE "ok"
    /\ drpc' = "done"
    /\ UNCHANGED <<mailbox, mailDrainAll, mailDrainDryRun, messages, candidates,
                   cidx, archived, archiveErrors, deleteCalls>>
    /\ UNCHANGED drainOthers

DrainNext ==
    \/ \E listOk \in BOOLEAN : DrainSelect(listOk)
    \/ \E deleteOk \in BOOLEAN : DrainDelete(deleteOk)
    \/ DrainReturn

(***************************************************************************)
(* Log rotator (internal/daemon/log_rotation.go).                          *)
(***************************************************************************)
logRotationMaxBackups == 3

NoFile == [exists |-> FALSE]
\* the directory entries of the town root; "gastown" stands for a rig
TownEntries == <<"daemon", ".hidden", "gastown">>
DaemonLogNames == <<"dolt.log", "dolt-server.log", "dolt-test-server.log">>
DaemonLogs == [i \in 1..Len(DaemonLogNames) |-> "daemon/" \o DaemonLogNames[i]]
RigLog(entry) == entry \o "/.beads/dolt-server.log"
MayorRigLog(entry) == entry \o "/rig/.beads/dolt-server.log"
\* every path a Dolt log may live at
LogPaths ==
    {DaemonLogs[i] : i \in 1..Len(DaemonLogs)}
    \cup {RigLog(TownEntries[i]) : i \in 1..Len(TownEntries)}
    \cup {MayorRigLog(TownEntries[i]) : i \in 1..Len(TownEntries)}
Suffixes == 1..(IF MaxSuffix > logRotationMaxBackups THEN MaxSuffix ELSE logRotationMaxBackups)

\* os.Stat(path) succeeds
Exists(path) == logs[path].exists
\* a size read one byte too large
SizeOffByOne(path) == Len(logs[path].data) + 1
\* info.Size()
FileSize(path) == Len(logs[path].data)

\* the rig-level part of collectDoltLogFiles, for the directory entries from i on
RECURSIVE collectRigLogs(_)
collectRigLogs(i) ==
    IF i > Len(TownEntries) THEN <<>>
    ELSE LET entry == TownEntries[i] IN
         (IF HasPrefix(entry, ".") \/ entry = "daemon" THEN <<>>
          ELSE (IF Exists(RigLog(entry)) THEN <<RigLog(entry)>> ELSE <<>>)
               \o (IF Exists(MayorRigLog(entry)) THEN <<MayorRigLog(entry)>> ELSE <<>>))
         \o collectRigLogs(i + 1)

collectDoltLogFiles ==
    SelectSeq(DaemonLogs, Exists) \o collectRigLogs(1)

\* the content of a gzip file made from `data`
Gzip(data) == <<"gz", data>>

\* os.Truncate(logPath, 0): the same file, emptied
TruncateByRecreate(f) == [exists |-> TRUE, ino |-> f.ino + 1, data |-> <<>>]
\* a truncation that leaves the content in place
TruncateSkipped(f) == f
Truncate(f) == [f EXCEPT !.data = <<>>]

\* the shift loop of copyTruncateRotate on the backups b of one log: remove
\* .maxBackups.gz, then rename .i.gz to .(i+1).gz for i = maxBackups-1 .. 1.
\* os.Rename does nothing when its source is missing.
\* a shift loop that removes .maxBackups.gz and renames nothing
RemoveOldestOnly(b, i) == [b EXCEPT ![logRotationMaxBackups] = NoFile]
RECURSIVE ShiftFrom(_, _)
ShiftFrom(b, i) ==
    IF i < 1 THEN b
    ELSE IF i = logRotationMaxBackups
         THEN ShiftFrom([b EXCEPT ![i] = NoFile], i - 1)
         ELSE IF b[i].exists
              THEN ShiftFrom([b EXCEPT ![i + 1] = b[i], ![i] = NoFile], i - 1)
              ELSE ShiftFrom(b, i - 1)
\* the same loop renaming .maxBackups.gz too, instead of removing it
ShiftKeepingOldest(b) ==
    LET c == ShiftFrom(b, logRotationMaxBackups)
    IN IF b[logRotationMaxBackups].exists /\ logRotationMaxBackups + 1 \in Suffixes
         THEN [c EXCEPT ![logRotationMaxBackups + 1] = b[logRotationMaxBackups]]
         ELSE c
ShiftBackups(b) == ShiftFrom(b, logRotationMaxBackups)

\* filepath.Glob(<path>.*.gz)
Matches(b) == {k \in Suffixes : b[k].exists}

\* the sets of files cleanOldRotations may remove: none when at most
\* maxBackups match; otherwise the first len-maxBackups of the matches sorted
\* by modification time, oldest first (files of equal time in any order)
RemovableSets(b) ==
    IF Cardinality(Matches(b)) <= logRotationMaxBackups THEN {{}}
    ELSE {R \in SUBSET Matches(b) :
            /\ Cardinality(R) = Cardinality(Matches(b)) - logRotationMaxBackups
            /\ \A r \in R, k \in Matches(b) \ R : b[r].mtime <= b[k].mtime}

\* <path>.K.gz files with K beyond maxBackups
Strays(b) == {k \in Matches(b) : k > logRotationMaxBackups}

\* the current logPath of the loop
CurLog == logFiles[ridx]

\* what is known before the first run and outside `gt daemon rotate-logs`
RotHistInit ==
    /\ entryStrays = [p \in LogPaths |-> {}]
    /\ rcmd = "none"
    /\ rexit = "none"

RotIdle ==
    /\ logs = [p \in LogPaths |-> NoFile]
    /\ gz = [p \in LogPaths |-> [k \in Suffixes |-> NoFile]]
    /\ childFd = [p \in LogPaths |-> 0]
    /\ nextByte = 1
    /\ clock = 1
    /\ rpc = "idle"
    /\ rforce = FALSE
    /\ logFiles = <<>>
    /\ ridx = 1
    /\ rotated = <<>>
    /\ skipped = <<>>
    /\ rerrors = <<>>
    /\ nRuns = MaxRuns
    /\ nFaults = 0
    /\ RotHistInit

\* One log, daemon/dolt.log, of any size up to the threshold, held open by
\* the child, with any set of <path>.K.gz files left by earlier runs or by
\* anything else, of any modification times.
RotInit ==
    /\ \E n \in 0..logRotationMaxSize :
         /\ logs = [p \in LogPaths |->
                      IF p = DaemonLogs[1]
                        THEN [exists |-> TRUE, ino |-> 1, data |-> [i \in 1..n |-> i]]
                        ELSE NoFile]
         /\ nextByte = n + 1
    /\ \E b \in [Suffixes -> {NoFile} \cup [exists : {TRUE}, mtime : {0, 1},
                                            data : {Gzip(<<0>>)}]] :
         gz = [p \in LogPaths |-> IF p = DaemonLogs[1] THEN b
                                  ELSE [k \in Suffixes |-> NoFile]]
    /\ childFd = [p \in LogPaths |-> IF p = DaemonLogs[1] THEN 1 ELSE 0]
    /\ clock = 1
    /\ rpc = "idle"
    /\ rforce = FALSE
    /\ logFiles = <<>>
    /\ ridx = 1
    /\ rotated = <<>>
    /\ skipped = <<>>
    /\ rerrors = <<>>
    /\ nRuns = 0
    /\ nFaults = 0
    /\ RotHistInit

\* One log, daemon/dolt.log, of any size up to the threshold, held open by
\* the child, without backups.  Its bytes are numbered in the order they are
\* written.
RotInitFresh ==
    /\ \E n \in 0..logRotationMaxSize :
         /\ logs = [p \in LogPaths |->
                      IF p = DaemonLogs[1]
                        THEN [exists |-> TRUE, ino |-> 1, data |-> [i \in 1..n |-> i]]
                        ELSE NoFile]
         /\ nextByte = n + 1
    /\ gz = [p \in LogPaths |-> [k \in Suffixes |-> NoFile]]
    /\ childFd = [p \in LogPaths |-> IF p = DaemonLogs[1] THEN 1 ELSE 0]
    /\ clock = 1
    /\ rpc = "idle"
    /\ rforce = FALSE
    /\ logFiles = <<>>
    /\ ridx = 1
    /\ rotated = <<>>
    /\ skipped = <<>>
    /\ rerrors = <<>>
    /\ nRuns = MaxRuns - FreshRuns
    /\ nFaults = 0
    /\ RotHistInit

\* Two logs without backups, daemon/dolt.log and a rig's dolt-server.log,
\* each of any size up to the threshold and held open by a child, and one
\* run left to make.
RotInitTwo ==
    /\ \E n \in 0..logRotationMaxSize, r \in 0..logRotationMaxSize :
         /\ logs = [p \in LogPaths |->
                      IF p = DaemonLogs[1]
                        THEN [exists |-> TRUE, ino |-> 1, data |-> [i \in 1..n |-> i]]
                      ELSE IF p = RigLog("gastown")
                        THEN [exists |-> TRUE, ino |-> 1, data |-> [i \in 1..r |-> n + i]]
                        ELSE NoFile]
         /\ nextByte = n + r + 1
    /\ gz = [p \in LogPaths |-> [k \in Suffixes |-> NoFile]]
    /\ childFd = [p \in LogPaths |->
                    IF p \in {DaemonLogs[1], RigLog("gastown")} THEN 1 ELSE 0]
    /\ clock = 1
    /\ rpc = "idle"
    /\ rforce = FALSE
    /\ logFiles = <<>>
    /\ ridx = 1
    /\ rotated = <<>>
    /\ skipped = <<>>
    /\ rerrors = <<>>
    /\ nRuns = MaxRuns - 1
    /\ nFaults = 0
    /\ RotHistInit

\* RotateLogs (force = FALSE) or ForceRotateLogs (force = TRUE) up to its
\* loop: a fresh result and the list of log files.  Time may have passed.
RotateStart(force, passed) ==
    /\ rpc = "idle"
    /\ nRuns < MaxRuns
    /\ nRuns' = nRuns + 1
    /\ clock' = clock + passed
    /\ rforce' = force
    /\ logFiles' = collectDoltLogFiles
    /\ ridx' = 1
    /\ rotated' = <<>>
    /\ skipped' = <<>>
    /\ rerrors' = <<>>
    /\ rpc' = "stat"
    /\ entryStrays' = [p \in LogPaths |-> {}]
    /\ rcmd' = IF rcmd = "called" THEN "running" ELSE "none"
    /\ rexit' = IF rcmd = "called" THEN rexit ELSE "none"
    /\ UNCHANGED <<logs, gz, childFd, nextByte, nFaults>>
    /\ UNCHANGED rotOthers

\* the head of the loop body: os.Stat and the size test
RotateStat(statOk) ==
    /\ rpc = "stat"
    /\ ridx <= Len(logFiles)
    /\ statOk \/ nFaults < MaxFaults
    /\ IF ~statOk
         THEN /\ nFaults' = nFaults + 1
              /\ rerrors' = Append(rerrors, CurLog)
              /\ ridx' = ridx + 1
              /\ UNCHANGED <<skipped, rpc, entryStrays>>
         ELSE IF ~Exists(CurLog)
         THEN /\ ridx' = ridx + 1
              /\ UNCHANGED <<skipped, rerrors, rpc, nFaults, entryStrays>>
         ELSE IF (IF rforce THEN FileSize(CurLog) = 0
                            ELSE FileSize(CurLog) < logRotationMaxSize)
         THEN /\ skipped' = Append(skipped, CurLog)
              /\ ridx' = ridx + 1
              /\ UNCHANGED <<rerrors, rpc, nFaults, entryStrays>>
         ELSE /\ rpc' = "shift"
              /\ entryStrays' = [entryStrays EXCEPT ![CurLog] = Strays(gz[CurLog])]
              /\ UNCHANGED <<skipped, rerrors, ridx, nFaults>>
    /\ UNCHANGED <<logs, gz, childFd, nextByte, clock, rforce, logFiles, rotated, nRuns,
                   rcmd, rexit>>
    /\ UNCHANGED rotOthers

\* copyTruncateRotate: the shift of the existing rotations
RotateShift ==
    /\ rpc = "shift"
    /\ gz' = [gz EXCEPT ![CurLog] = ShiftBackups(@)]
    /\ rpc' = "compress"
    /\ UNCHANGED <<logs, childFd, nextByte, clock, rforce, logFiles, ridx, rotated,
                   skipped, rerrors, nRuns, nFaults>>
    /\ UNCHANGED <<entryStrays, rcmd, rexit>>
    /\ UNCHANGED rotOthers

\* copyTruncateRotate: compressFile(logPath, logPath + ".1.gz").
\*   "ok"     the whole log is in .1.gz
\*   "open"   os.Open fails; nothing is written
\*   "create" os.Create fails; nothing is written
\*   "copy"   io.Copy fails after `copied` bytes; .1.gz holds those
\*   "close"  io.Copy succeeds and the deferred gz.Close() or out.Close()
\*            fails: its error is dropped, .1.gz holds only `copied` bytes and
\*            compressFile returns nil
RotateCompress(outcome, copied) ==
    /\ rpc = "compress"
    /\ outcome = "ok" \/ nFaults < MaxFaults
    /\ outcome = "ok" => copied = FileSize(CurLog)
    /\ outcome \in {"open", "create"} => copied = 0
    /\ nFaults' = IF outcome = "ok" THEN nFaults ELSE nFaults + 1
    /\ gz' = IF outcome \in {"open", "create"} THEN gz
             ELSE [gz EXCEPT ![CurLog][1] =
                     [exists |-> TRUE, mtime |-> clock,
                      data |-> Gzip(SubSeq(logs[CurLog].data, 1, copied))]]
    /\ IF outcome \in {"ok", "close"}
         THEN /\ rpc' = "truncate"
              /\ UNCHANGED <<rerrors, ridx>>
         ELSE /\ rerrors' = Append(rerrors, CurLog)
              /\ ridx' = ridx + 1
              /\ rpc' = "stat"
    /\ UNCHANGED <<logs, childFd, nextByte, clock, rforce, logFiles, rotated, skipped, nRuns>>
    /\ UNCHANGED <<entryStrays, rcmd, rexit>>
    /\ UNCHANGED rotOthers

\* copyTruncateRotate: os.Truncate(logPath, 0)
RotateTruncate(truncOk) ==
    /\ rpc = "truncate"
    /\ truncOk \/ nFaults < MaxFaults
    /\ IF truncOk
         THEN /\ logs' = [logs EXCEPT ![CurLog] = Truncate(@)]
              /\ rpc' = "clean"
              /\ UNCHANGED <<rerrors, ridx, nFaults>>
         ELSE /\ nFaults' = nFaults + 1
              /\ rerrors' = Append(rerrors, CurLog)
              /\ ridx' = ridx + 1
              /\ rpc' = "stat"
              /\ logs' = logs
    /\ UNCHANGED <<gz, childFd, nextByte, clock, rforce, logFiles, rotated, skipped, nRuns>>
    /\ UNCHANGED <<entryStrays, rcmd, rexit>>
    /\ UNCHANGED rotOthers

\* copyTruncateRotate: cleanOldRotations, and the nil return that puts the
\* file into result.Rotated
RotateClean(R) ==
    /\ rpc = "clean"
    /\ R \in RemovableSets(gz[CurLog])
    /\ gz' = [gz EXCEPT ![CurLog] = [k \in Suffixes |-> IF k \in R THEN NoFile ELSE @[k]]]
    /\ rotated' = Append(rotated, CurLog)
    /\ ridx' = ridx + 1
    /\ rpc' = "stat"
    /\ UNCHANGED <<logs, childFd, nextByte, clock, rforce, logFiles, skipped, rerrors,
                   nRuns, nFaults>>
    /\ UNCHANGED <<entryStrays, rcmd, rexit>>
    /\ UNCHANGED rotOthers

\* a loop that ends at the first error
ReturnAtFirstError ==
    /\ rpc = "stat"
    /\ ridx > Len(logFiles) \/ rerrors # <<>>
    /\ rpc' = "idle"
    /\ UNCHANGED <<logs, gz, childFd, nextByte, clock, rforce, logFiles, ridx, rotated,
                   skipped, rerrors, nRuns, nFaults>>
    /\ UNCHANGED <<entryStrays, rcmd, rexit>>
    /\ UNCHANGED rotOthers

\* the end of the loop: return result
RotateReturn ==
    /\ rpc = "stat"
    /\ ridx > Len(logFiles)
    /\ rpc' = "idle"
    /\ UNCHANGED <<logs, gz, childFd, nextByte, clock, rforce, logFiles, ridx, rotated,
                   skipped, rerrors, nRuns, nFaults>>
    /\ UNCHANGED <<entryStrays, rcmd, rexit>>
    /\ UNCHANGED rotOthers

\* the child process appends one byte through the descriptor it holds
ChildWrite(p) ==
    /\ Exists(p)
    /\ childFd[p] = logs[p].ino
    /\ FileSize(p) < logRotationMaxSize
    /\ logs' = [logs EXCEPT ![p].data = Append(@, nextByte)]
    /\ nextByte' = nextByte + 1
    /\ UNCHANGED <<gz, childFd, clock, rpc, rforce, logFiles, ridx, rotated, skipped,
                   rerrors, nRuns, nFaults>>
    /\ UNCHANGED <<entryStrays, rcmd, rexit>>
    /\ UNCHANGED rotOthers

\* the child writes only between rotation runs
ChildWriteBetweenRuns(p) ==
    /\ rpc = "idle"
    /\ nRuns < MaxRuns
    /\ ChildWrite(p)

\* the child writes while a rotation run is in progress: it is another
\* process and is not stopped for the rotation
ChildWriteDuringRun(p) ==
    /\ rpc # "idle"
    /\ ChildWrite(p)

\* runDaemonRotateLogs up to its call of RotateLogs or ForceRotateLogs:
\* workspace.FindFromCwdOrError finds the town root, or fails and the command
\* returns the error
runDaemonRotateLogsEnter(found) ==
    /\ rpc = "idle"
    /\ rcmd \in {"none", "returned", "no_workspace"}
    /\ nRuns < MaxRuns
    /\ rcmd' = IF found THEN "called" ELSE "no_workspace"
    /\ rexit' = IF found THEN "none" ELSE "nonzero"
    /\ UNCHANGED <<logs, gz, childFd, nextByte, clock, rpc, rforce, logFiles, ridx,
                   rotated, skipped, rerrors, nRuns, nFaults, entryStrays>>
    /\ UNCHANGED rotOthers

\* runDaemonRotateLogs after the call: it prints the result and returns nil
runDaemonRotateLogsReturn ==
    /\ rpc = "idle"
    /\ rcmd = "running"
    /\ rcmd' = "returned"
    /\ rexit' = "zero"
    /\ UNCHANGED <<logs, gz, childFd, nextByte, clock, rpc, rforce, logFiles, ridx,
                   rotated, skipped, rerrors, nRuns, nFaults, entryStrays>>
    /\ UNCHANGED rotOthers

RotNext ==
    \/ \E force \in BOOLEAN, passed \in {0, 1} : RotateStart(force, passed)
    \/ \E statOk \in BOOLEAN : RotateStat(statOk)
    \/ RotateShift
    \/ \E outcome \in {"ok", "open", "create", "copy", "close"} :
         \E copied \in 0..logRotationMaxSize :
            /\ rpc = "compress"
            /\ copied <= FileSize(CurLog)
            /\ RotateCompress(outcome, copied)
    \/ \E truncOk \in BOOLEAN : RotateTruncate(truncOk)
    \/ \E R \in SUBSET Suffixes : RotateClean(R)
    \/ RotateReturn
    \/ \E p \in LogPaths : ChildWriteBetweenRuns(p)

\* the rotator and the child processes that write the logs
RotWriterNext ==
    \/ RotNext
    \/ \E p \in LogPaths : ChildWriteDuringRun(p)

\* the rotator with `gt daemon rotate-logs`
RotCmdNext ==
    \/ RotNext
    \/ \E found \in BOOLEAN : runDaemonRotateLogsEnter(found)
    \/ runDaemonRotateLogsReturn

(***************************************************************************)
(* Retention engine, the wisp reaper (internal/daemon/wisp_reaper.go, the  *)
(* version with the step functions).  Times are hours.                     *)
(***************************************************************************)
defaultWispMaxAge == 24
defaultWispDeleteAge == 168
defaultMailDeleteAge == 168
defaultStaleIssueAge == 720

\* time.Now() of the cycle and SQL NOW() of its statements
ReapNow == defaultStaleIssueAge + 1

\* the databases of the Dolt server
ServerDBs == {"hq", "beads", "gastown"}
discoverDoltDatabases == <<"hq", "beads", "gastown">>

\* validDBName: one or more letters, digits or underscores
IdentChars ==
    {"a", "b", "c", "d", "e", "f", "g", "h", "i", "j", "k", "l", "m", "n", "o",
     "p", "q", "r", "s", "t", "u", "v", "w", "x", "y", "z", "A", "B", "C", "D",
     "E", "F", "G", "H", "I", "J", "K", "L", "M", "N", "O", "P", "Q", "R", "S",
     "T", "U", "V", "W", "X", "Y", "Z", "0", "1", "2", "3", "4", "5", "6", "7",
     "8", "9", "_"}
validDBName(name) ==
    Len(name) > 0 /\ \A i \in 1..Len(name) : SubSeq(name, i, i) \in IdentChars

\* *WispReaperConfig and *DoctorDogConfig: a nil pointer or the block
NoWispReaper == [nil |-> TRUE, enabled |-> FALSE, dry_run |-> FALSE, databases |-> <<>>]
WispReaperConfig(enabled, dryRun, databases) ==
    [nil |-> FALSE, enabled |-> enabled, dry_run |-> dryRun, databases |-> databases]
NoDoctorDog == [nil |-> TRUE, enabled |-> FALSE]
DoctorDogConfig(enabled) == [nil |-> FALSE, enabled |-> enabled]

\* *DaemonPatrolConfig: nil, with a nil Patrols section, or with the section
NilConfig ==
    [nil |-> TRUE,
     Patrols |-> [nil |-> TRUE, WispReaper |-> NoWispReaper, DoctorDog |-> NoDoctorDog]]
NilPatrols ==
    [nil |-> FALSE,
     Patrols |-> [nil |-> TRUE, WispReaper |-> NoWispReaper, DoctorDog |-> NoDoctorDog]]
DaemonPatrolConfig(wispReaper, doctorDog) ==
    [nil |-> FALSE,
     Patrols |-> [nil |-> FALSE, WispReaper |-> wispReaper, DoctorDog |-> doctorDog]]

\* IsPatrolEnabled(config, patrol)
IsPatrolEnabled(config, patrol) ==
    /\ ~config.nil
    /\ ~config.Patrols.nil
    /\ CASE patrol = "wisp_reaper" ->
               ~config.Patrols.WispReaper.nil /\ config.Patrols.WispReaper.enabled
         [] patrol = "doctor_dog" ->
               ~config.Patrols.DoctorDog.nil /\ config.Patrols.DoctorDog.enabled
         [] OTHER -> FALSE

\* if !IsPatrolEnabled(d.patrolConfig, patrol) { return }, the first
\* statement of reapWisps and of runDoctorDog
DisabledOnlyExplicitly(patrol) ==
    /\ ~patrolConfig.nil
    /\ ~patrolConfig.Patrols.nil
    /\ CASE patrol = "wisp_reaper" ->
               ~patrolConfig.Patrols.WispReaper.nil
               /\ ~patrolConfig.Patrols.WispReaper.enabled
         [] patrol = "doctor_dog" ->
               ~patrolConfig.Patrols.DoctorDog.nil
               /\ ~patrolConfig.Patrols.DoctorDog.enabled
patrolDisabled(patrol) == ~IsPatrolEnabled(patrolConfig, patrol)

WispIds == 1..NumWisps
IssueIds == 1..NumIssues
\* the id of a molecule that has no row in the wisps table
MoleculeId == 0
\* closed_at of a row that was never closed (SQL NULL)
NullTime == 0

OpenWispStatuses == {"open", "hooked", "in_progress"}
ActiveIssueStatuses == {"open", "in_progress"}
WispAuxTables == <<"wisp_labels", "wisp_comments", "wisp_events", "wisp_dependencies">>
IssueAuxTables == <<"labels", "comments", "events", "dependencies">>
AuxTableNames == {"wisp_labels", "wisp_comments", "wisp_events", "comments", "events"}

\* parentCheckWhere for the row w of db.wisps
ParentCheckIgnored(db, w) == TRUE
parentCheckWhere(db, w) ==
    \/ ~\E wd \in wisp_dependencies[db] :
          wd.issue_id = w /\ wd.type = "parent-child"
    \/ \E wd \in wisp_dependencies[db] :
          /\ wd.issue_id = w /\ wd.type = "parent-child"
          /\ wd.depends_on_id \in DOMAIN wisps[db]
          /\ wisps[db][wd.depends_on_id].status = "closed"

\* whereClause of reapWispsInDB
reapWhere(db, w, cutoff) ==
    /\ wisps[db][w].status \in OpenWispStatuses
    /\ wisps[db][w].created_at < cutoff
    /\ parentCheckWhere(db, w)

\* the WHERE of the digest and of the idQuery of purgeClosedWispsInDB
PurgeClosedAnyAge(db, w, deleteCutoff) ==
    wisps[db][w].status = "closed" /\ parentCheckWhere(db, w)
purgeWhere(db, w, deleteCutoff) ==
    /\ wisps[db][w].status = "closed"
    /\ wisps[db][w].closed_at < deleteCutoff
    /\ parentCheckWhere(db, w)

\* the WHERE of the countQuery and of the idQuery of purgeOldMailInDB
MailAnyStatus(db, i, mailCutoff) ==
    /\ issues[db][i].status = "closed" => issues[db][i].closed_at < mailCutoff
    /\ \E l \in labels[db] : l.issue_id = i /\ l.label = "gt:message"
mailWhere(db, i, mailCutoff) ==
    /\ issues[db][i].status = "closed"
    /\ issues[db][i].closed_at < mailCutoff
    /\ \E l \in labels[db] : l.issue_id = i /\ l.label = "gt:message"

\* the two NOT IN subqueries of autoCloseStaleIssuesInDB
BlockedByActive(db) ==
    {dp.issue_id : dp \in {x \in dependencies[db] :
        /\ x.depends_on_id \in DOMAIN issues[db]
        /\ issues[db][x.depends_on_id].status \in ActiveIssueStatuses}}
BlockingActive(db) ==
    {dp.depends_on_id : dp \in {x \in dependencies[db] :
        /\ x.issue_id \in DOMAIN issues[db]
        /\ issues[db][x.issue_id].status \in ActiveIssueStatuses}}

\* the WHERE of the count and of the UPDATE of autoCloseStaleIssuesInDB
StaleAnyPriority(db, i, staleCutoff) ==
    /\ issues[db][i].status \in ActiveIssueStatuses
    /\ issues[db][i].updated_at < staleCutoff
    /\ issues[db][i].issue_type # "epic"
    /\ i \notin BlockedByActive(db)
    /\ i \notin BlockingActive(db)
staleWhere(db, i, staleCutoff) ==
    /\ issues[db][i].status \in ActiveIssueStatuses
    /\ issues[db][i].updated_at < staleCutoff
    /\ issues[db][i].priority > 1
    /\ issues[db][i].issue_type # "epic"
    /\ i \notin BlockedByActive(db)
    /\ i \notin BlockingActive(db)

ReapEligible(db, cutoff) == {w \in DOMAIN wisps[db] : reapWhere(db, w, cutoff)}
PurgeEligible(db, cutoff) == {w \in DOMAIN wisps[db] : purgeWhere(db, w, cutoff)}
MailEligible(db, cutoff) == {i \in DOMAIN issues[db] : mailWhere(db, i, cutoff)}
StaleEligible(db, cutoff) == {i \in DOMAIN issues[db] : staleWhere(db, i, cutoff)}

\* the result sets a SELECT ... LIMIT deleteBatchSize may return: any
\* deleteBatchSize of the eligible rows, or all of them when there are fewer
Limit(eligible) ==
    IF Cardinality(eligible) <= deleteBatchSize THEN {eligible}
    ELSE {ids \in SUBSET eligible : Cardinality(ids) = deleteBatchSize}

\* reaperCycle as reapWisps builds it
NewCycle(config) ==
    [databases |-> <<>>, dryRun |-> config.dry_run,
     cutoff |-> ReapNow - defaultWispMaxAge,
     deleteCutoff |-> ReapNow - defaultWispDeleteAge,
     totalReaped |-> 0, totalOpen |-> 0, totalPurged |-> 0,
     totalMailPurged |-> 0, totalAutoClosed |-> 0]

\* the current dbName of the loop an action is in
CurDB == rc.databases[dbIdx]

\* tables without rows
NoRows == [db \in ServerDBs |-> {}]
NoTable == [db \in ServerDBs |-> <<>>]
EmptyAux == [db \in ServerDBs |-> [t \in AuxTableNames |-> {}]]

\* rows of the wisps table: stale and just not stale open rows, stale rows
\* that are hooked or in progress, closed rows old enough to purge and just
\* not old enough
WispRows ==
    [status : {"open"}, created_at : {ReapNow - defaultWispMaxAge - 1,
                                      ReapNow - defaultWispMaxAge},
     closed_at : {NullTime}]
    \cup [status : {"hooked", "in_progress"},
          created_at : {ReapNow - defaultWispMaxAge - 1}, closed_at : {NullTime}]
    \cup [status : {"closed"}, created_at : {ReapNow - defaultStaleIssueAge},
          closed_at : {ReapNow - defaultWispDeleteAge - 1,
                       ReapNow - defaultWispDeleteAge}]

\* the parent a wisp may have: none (-1), a molecule outside the wisps table
\* (the first wisp only), or a wisp created before it
WispParents ==
    {p \in [WispIds -> -1..NumWisps] :
       \A w \in WispIds : /\ p[w] < w
                          /\ (p[w] = MoleculeId => w = 1)}

\* rows of the issues table, with whether the row carries the gt:message
\* label: a stale open task, and the same row with one column changed (not
\* stale by an hour, priority 1, an epic, in progress, a mail); closed rows
\* around the mail cutoff
StaleTask ==
    [status |-> "open", updated_at |-> ReapNow - defaultStaleIssueAge - 1,
     closed_at |-> NullTime, priority |-> 2, issue_type |-> "task", mail |-> FALSE]
IssueRows ==
    {StaleTask,
     [StaleTask EXCEPT !.updated_at = ReapNow - defaultStaleIssueAge],
     [StaleTask EXCEPT !.priority = 1],
     [StaleTask EXCEPT !.issue_type = "epic"],
     [StaleTask EXCEPT !.status = "in_progress"],
     [StaleTask EXCEPT !.mail = TRUE]}
    \cup [status : {"closed"}, updated_at : {ReapNow - defaultStaleIssueAge - 1},
          closed_at : {ReapNow - defaultMailDeleteAge - 1,
                       ReapNow - defaultMailDeleteAge},
          priority : {2}, issue_type : {"task"}, mail : BOOLEAN]

IssueDeps ==
    {D \in SUBSET [issue_id : IssueIds, depends_on_id : IssueIds] :
       /\ Cardinality(D) <= MaxDeps
       /\ \A x \in D : x.issue_id # x.depends_on_id}

\* a row of the issues table without the label flag of IssueRows
IssueRow(r) ==
    [status |-> r.status, updated_at |-> r.updated_at, closed_at |-> r.closed_at,
     priority |-> r.priority, issue_type |-> r.issue_type]

\* no cycle has started: the cycle record, the counters and the molecule
ReapFresh ==
    /\ autocommit = TRUE
    /\ commits = <<>>
    /\ rc = NewCycle(patrolConfig.Patrols.WispReaper)
    /\ wpc = "idle"
    /\ dbIdx = 1
    /\ reapErrors = 0
    /\ purgeErrors = 0
    /\ autoCloseErrors = 0
    /\ digestTotal = 0
    /\ totalDeleted = 0
    /\ nBatches = 0
    /\ lastErr = "none"
    /\ mol = <<>>
    /\ dbCalls = <<>>

\* the retention engine is not part of the behaviour
ReapIdle ==
    /\ patrolConfig = NilConfig
    /\ wisps = NoTable
    /\ wisp_dependencies = NoRows
    /\ issues = NoTable
    /\ labels = NoRows
    /\ dependencies = NoRows
    /\ auxRows = EmptyAux
    /\ autocommit = TRUE
    /\ commits = <<>>
    /\ rc = NewCycle(patrolConfig.Patrols.WispReaper)
    /\ wpc = "off"
    /\ dbIdx = 1
    /\ reapErrors = 0
    /\ purgeErrors = 0
    /\ autoCloseErrors = 0
    /\ digestTotal = 0
    /\ totalDeleted = 0
    /\ nBatches = 0
    /\ lastErr = "none"
    /\ mol = <<>>
    /\ dbCalls = <<>>
    /\ wfaults = 0

\* One configured database, hq, whose wisps table holds NumWisps rows of any
\* status and age with any parents; every wisp has a row in each auxiliary
\* table.  No statement fails.
ReapInitWisps ==
    /\ \E dry \in BOOLEAN :
         patrolConfig = DaemonPatrolConfig(WispReaperConfig(TRUE, dry, <<"hq">>),
                                           NoDoctorDog)
    /\ \E rows \in [WispIds -> WispRows] :
         wisps = [db \in ServerDBs |-> IF db = "hq" THEN rows ELSE <<>>]
    /\ \E p \in WispParents :
         wisp_dependencies =
           [db \in ServerDBs |->
              IF db = "hq"
                THEN {[issue_id |-> w, depends_on_id |-> p[w], type |-> "parent-child"] :
                        w \in {x \in WispIds : p[x] # -1}}
                ELSE {}]
    /\ issues = NoTable
    /\ labels = NoRows
    /\ dependencies = NoRows
    /\ auxRows = [db \in ServerDBs |-> [t \in AuxTableNames |->
                    IF db = "hq" /\ t \in {"wisp_labels", "wisp_comments", "wisp_events"}
                      THEN WispIds ELSE {}]]
    /\ wfaults = MaxFaults
    /\ ReapFresh

\* One configured database, hq, whose issues table holds NumIssues rows of
\* any status, age, priority and type, some of them mail, with at most
\* MaxDeps dependency rows among them.  No statement fails.
ReapInitIssues ==
    /\ \E dry \in BOOLEAN :
         patrolConfig = DaemonPatrolConfig(WispReaperConfig(TRUE, dry, <<"hq">>),
                                           NoDoctorDog)
    /\ wisps = NoTable
    /\ wisp_dependencies = NoRows
    /\ \E rows \in [IssueIds -> IssueRows] :
         /\ issues = [db \in ServerDBs |->
                        IF db = "hq" THEN [i \in IssueIds |-> IssueRow(rows[i])] ELSE <<>>]
         /\ labels = [db \in ServerDBs |->
                        IF db = "hq"
                          THEN {[issue_id |-> i, label |-> "gt:message"] :
                                  i \in {x \in IssueIds : rows[x].mail}}
                          ELSE {}]
    /\ \E D \in IssueDeps :
         dependencies = [db \in ServerDBs |-> IF db = "hq" THEN D ELSE {}]
    /\ auxRows = [db \in ServerDBs |-> [t \in AuxTableNames |->
                    IF db = "hq" /\ t \in {"comments", "events"} THEN IssueIds ELSE {}]]
    /\ wfaults = MaxFaults
    /\ ReapFresh

\* the tables of a fixed town: hq with a stale orphan wisp, an old closed
\* wisp, an old closed mail and a stale issue; beads with a stale orphan wisp
FixedTown ==
    /\ wisps = [db \in ServerDBs |->
         CASE db = "hq" ->
                (1 :> [status |-> "open", created_at |-> ReapNow - defaultWispMaxAge - 1,
                       closed_at |-> NullTime]
                 @@ 2 :> [status |-> "closed", created_at |-> ReapNow - defaultStaleIssueAge,
                          closed_at |-> ReapNow - defaultWispDeleteAge - 1])
           [] db = "beads" ->
                (1 :> [status |-> "in_progress",
                       created_at |-> ReapNow - defaultWispMaxAge - 1,
                       closed_at |-> NullTime])
           [] OTHER -> <<>>]
    /\ wisp_dependencies = NoRows
    /\ issues = [db \in ServerDBs |->
         IF db = "hq"
           THEN (1 :> [status |-> "closed", updated_at |-> ReapNow - defaultStaleIssueAge - 1,
                       closed_at |-> ReapNow - defaultMailDeleteAge - 1,
                       priority |-> 2, issue_type |-> "task"]
                 @@ 2 :> [status |-> "open", updated_at |-> ReapNow - defaultStaleIssueAge - 1,
                          closed_at |-> NullTime, priority |-> 2, issue_type |-> "task"])
           ELSE <<>>]
    /\ labels = [db \in ServerDBs |->
         IF db = "hq" THEN {[issue_id |-> 1, label |-> "gt:message"]} ELSE {}]
    /\ dependencies = NoRows
    /\ auxRows = [db \in ServerDBs |-> [t \in AuxTableNames |->
         IF db = "hq" THEN {1, 2} ELSE {}]]

\* A fixed town: hq with a stale orphan wisp, an old closed wisp, an old
\* closed mail and a stale issue; beads with a stale orphan wisp.  The
\* patrol may be disabled, the database list may be empty or name a
\* database that is not an identifier, and up to MaxFaults statements fail.
ReapInitFaulty ==
    /\ \E en \in BOOLEAN, dry \in BOOLEAN,
          dbs \in {<<>>, <<"hq">>, <<"hq", "bad-name", "beads">>} :
         patrolConfig = DaemonPatrolConfig(WispReaperConfig(en, dry, dbs), NoDoctorDog)
    /\ FixedTown
    /\ wfaults = 0
    /\ ReapFresh

ReapInit == ReapInitWisps \/ ReapInitIssues \/ ReapInitFaulty

\* a statement fails only while the number of failures allows it
MayFail(n) == wfaults + n <= MaxFaults

\* mol.closeStep(step) or mol.failStep(step, reason)
StepDone(step, errors) ==
    Append(mol, <<step, IF errors > 0 THEN "failed" ELSE "closed">>)

\* an UPDATE that closes ids and sets no closed_at on a row that has none
CloseWispsUndated(db, ids) ==
    [w \in DOMAIN wisps[db] |->
       IF w \in ids THEN [wisps[db][w] EXCEPT !.status = "closed"] ELSE wisps[db][w]]

\* the wisps table of db after the UPDATE of reapWispsInDB has closed ids
CloseWisps(db, ids) ==
    [w \in DOMAIN wisps[db] |->
       IF w \in ids
         THEN [wisps[db][w] EXCEPT !.status = "closed", !.closed_at = ReapNow]
         ELSE wisps[db][w]]

\* the issues table of db after the UPDATE of autoCloseStaleIssuesInDB
CloseIssues(db, ids) ==
    [i \in DOMAIN issues[db] |->
       IF i \in ids
         THEN [issues[db][i] EXCEPT !.status = "closed", !.closed_at = ReapNow]
         ELSE issues[db][i]]

\* CALL DOLT_COMMIT('-Am', msg) for n rows, which succeeds or not
CommitForgotten(db, phase, n, ok) == commits
DoltCommit(db, phase, n, ok) ==
    Append(commits, [db |-> db, phase |-> phase, rows |-> n, ok |-> ok])

\* defer func() { SET @@autocommit = 1 }(), which runs on every return after
\* SET @@autocommit = 0 succeeded, with or without an error: the value of
\* @@autocommit when the function has returned
RestoreOnSuccessOnly(err) == err = FALSE
DeferredRestore(err) == TRUE

\* the call of reapWispsInDB, purgeClosedWispsInDB, purgeOldMailInDB or
\* autoCloseStaleIssuesInDB for db has returned
Returned(db, phase, changed, err) ==
    Append(dbCalls, [db |-> db, phase |-> phase, changed |-> changed, err |-> err])

\* if !validDBName.MatchString(dbName) { continue }, the first statement of
\* each of the four loops over rc.databases
SkipsNothing(dbName) == FALSE
invalidDBName(dbName) == ~validDBName(dbName)

\* reaperOpenDB puts dbName into the DSN and sql.Open connects lazily: on a
\* name that is no database of the server the first statement of the call
\* fails
FirstStatement(phase, dryRun) ==
    CASE phase = "reap" -> IF dryRun THEN "dry-run count stale wisps"
                           ELSE "disable autocommit"
      [] phase = "purge" -> "digest query"
      [] phase = "mail" -> "count mail"
      [] phase = "auto-close" -> "count stale issues"

\* `continue` in the loops over rc.databases, also after an error: the index
\* of the database the loop goes on with
ReturnOnError(err) == IF err THEN Len(rc.databases) + 1 ELSE dbIdx + 1
RetryOnError(err) == IF err THEN dbIdx ELSE dbIdx + 1
NextDatabase(err) == dbIdx + 1

\* reapWisps up to the reap step: the patrol switch, the cycle, the molecule
\* and the scan step
ReaperStart ==
    /\ wpc = "idle"
    /\ IF patrolDisabled("wisp_reaper")
         THEN /\ wpc' = "done"
              /\ UNCHANGED <<rc, mol>>
         ELSE LET config == patrolConfig.Patrols.WispReaper
                  dbs == IF Len(config.databases) = 0
                           THEN discoverDoltDatabases
                           ELSE config.databases
              IN /\ rc' = [NewCycle(config) EXCEPT !.databases = dbs]
                 /\ IF Len(dbs) = 0
                      THEN /\ mol' = <<<<"scan", "failed">>, <<"molecule", "closed">>>>
                           /\ wpc' = "done"
                      ELSE /\ mol' = <<<<"scan", "closed">>>>
                           /\ wpc' = "reap"
    /\ dbIdx' = 1
    /\ reapErrors' = 0
    /\ UNCHANGED <<dbCalls, patrolConfig, dbTables, autocommit, commits, purgeErrors,
                   autoCloseErrors, digestTotal, totalDeleted, nBatches, lastErr,
                   wfaults>>
    /\ UNCHANGED reapOthers

\* one iteration of the loop of reaperReap: reapWispsInDB(dbName, cutoff,
\* dryRun) and what the loop does with its result.  outcome names the
\* statement that fails, if any.
ReaperReapDB(outcome) ==
    /\ wpc = "reap"
    /\ dbIdx <= Len(rc.databases)
    /\ LET db == CurDB
           eligible == IF validDBName(db) /\ db \in ServerDBs
                         THEN ReapEligible(db, rc.cutoff) ELSE {}
           reaped == Cardinality(eligible)
           updated == /\ ~rc.dryRun
                      /\ outcome \in {"ok", "commit", "count open wisps"}
           failed == outcome \notin {"ok", "commit"}
       IN /\ IF invalidDBName(db)
               THEN /\ outcome = "ok"
                    /\ UNCHANGED <<wisps, commits, rc, reapErrors, lastErr, dbCalls,
                                   autocommit>>
               ELSE /\ dbCalls' = Returned(db, "reap", updated /\ reaped > 0, failed)
                    /\ autocommit' = IF ~rc.dryRun /\ outcome # "disable autocommit"
                                       THEN DeferredRestore(failed) ELSE autocommit
                    /\ outcome \in
                         IF db \notin ServerDBs
                           THEN {FirstStatement("reap", rc.dryRun)}
                         ELSE IF rc.dryRun
                           THEN {"ok", "dry-run count stale wisps", "count open wisps"}
                           ELSE {"ok", "disable autocommit", "close stale wisps",
                                 "count open wisps"}
                                \cup (IF reaped > 0 THEN {"commit"} ELSE {})
                    /\ wisps' = IF updated
                                  THEN [wisps EXCEPT ![db] = CloseWisps(db, eligible)]
                                  ELSE wisps
                    /\ commits' = IF updated /\ reaped > 0
                                    THEN DoltCommit(db, "reap", reaped, outcome # "commit")
                                    ELSE commits
                    /\ lastErr' = IF failed THEN outcome ELSE "none"
                    /\ reapErrors' = IF failed THEN reapErrors + 1 ELSE reapErrors
                    /\ rc' = IF failed THEN rc
                             ELSE [rc EXCEPT
                                     !.totalReaped = @ + reaped,
                                     !.totalOpen = @ + Cardinality(
                                        {w \in DOMAIN wisps'[db] :
                                           wisps'[db][w].status \in OpenWispStatuses})]
          /\ wfaults' = IF outcome = "ok" \/ db \notin ServerDBs
                          THEN wfaults ELSE wfaults + 1
          /\ (outcome # "ok" /\ db \in ServerDBs => MayFail(1))
          /\ dbIdx' = NextDatabase(failed)
    /\ UNCHANGED <<patrolConfig, wisp_dependencies, issues, labels, dependencies,
                   auxRows, wpc, purgeErrors, autoCloseErrors,
                   digestTotal, totalDeleted, nBatches, mol>>
    /\ UNCHANGED reapOthers

\* reaperReap after its loop: the reap step of the molecule
ReaperReapEnd ==
    /\ wpc = "reap"
    /\ dbIdx > Len(rc.databases)
    /\ mol' = StepDone("reap", reapErrors)
    /\ wpc' = "purge"
    /\ dbIdx' = 1
    /\ purgeErrors' = 0
    /\ UNCHANGED <<dbCalls, patrolConfig, dbTables, autocommit, commits, rc, reapErrors,
                   autoCloseErrors, digestTotal, totalDeleted, nBatches, lastErr,
                   wfaults>>
    /\ UNCHANGED reapOthers

\* one iteration of the first loop of reaperPurge: purgeClosedWispsInDB up
\* to its call of batchDeleteRows, and the loop's handling of the early
\* returns
ReaperPurgeDB(outcome) ==
    /\ wpc = "purge"
    /\ dbIdx <= Len(rc.databases)
    /\ LET db == CurDB
           total == IF validDBName(db) /\ db \in ServerDBs
                      THEN Cardinality(PurgeEligible(db, rc.deleteCutoff)) ELSE 0
       IN IF invalidDBName(db)
            THEN /\ outcome = "ok"
                 /\ dbIdx' = dbIdx + 1
                 /\ UNCHANGED <<autocommit, rc, wpc, purgeErrors, digestTotal,
                                totalDeleted, nBatches, lastErr, dbCalls>>
            ELSE /\ outcome \in
                      IF db \notin ServerDBs
                        THEN {FirstStatement("purge", rc.dryRun)}
                        ELSE {"ok", "digest query"}
                             \cup (IF total > 0 /\ ~rc.dryRun
                                     THEN {"disable autocommit"} ELSE {})
                 /\ lastErr' = IF outcome = "ok" THEN "none" ELSE outcome
                 /\ digestTotal' = IF outcome = "digest query" THEN 0 ELSE total
                 /\ IF outcome # "ok"
                      THEN /\ purgeErrors' = purgeErrors + 1
                           /\ dbIdx' = NextDatabase(TRUE)
                           /\ dbCalls' = Returned(db, "purge", FALSE, TRUE)
                           /\ UNCHANGED <<autocommit, rc, wpc, totalDeleted, nBatches>>
                      ELSE IF total = 0 \/ rc.dryRun
                      THEN /\ rc' = [rc EXCEPT !.totalPurged = @ + total]
                           /\ dbIdx' = dbIdx + 1
                           /\ dbCalls' = Returned(db, "purge", FALSE, FALSE)
                           /\ UNCHANGED <<autocommit, wpc, purgeErrors, totalDeleted,
                                          nBatches>>
                      ELSE /\ autocommit' = FALSE
                           /\ totalDeleted' = 0
                           /\ nBatches' = 0
                           /\ wpc' = "purge_batch"
                           /\ UNCHANGED <<rc, dbIdx, purgeErrors, dbCalls>>
    /\ wfaults' = IF outcome = "ok" \/ CurDB \notin ServerDBs
                    THEN wfaults ELSE wfaults + 1
    /\ (outcome # "ok" /\ CurDB \in ServerDBs => MayFail(1))
    /\ UNCHANGED <<patrolConfig, dbTables, commits, reapErrors, autoCloseErrors, mol>>
    /\ UNCHANGED reapOthers

\* a batch that leaves the auxiliary tables alone
DeleteAuxSkipped(db, tables, ids) == auxRows[db]

\* the rows of the auxiliary tables of db after DELETE ... WHERE issue_id IN
\* ids has run on the tables named in tables
DeleteAux(db, tables, ids) ==
    [t \in AuxTableNames |->
       IF t \in tables THEN auxRows[db][t] \ ids ELSE auxRows[db][t]]

\* a table of db without the rows whose id is in ids
DeletePrimary(table, ids) == [x \in DOMAIN table \ ids |-> table[x]]

\* one iteration of the loop of batchDeleteRows for the wisps table, and,
\* when the loop ends, the rest of purgeClosedWispsInDB and of the iteration
\* of reaperPurge that called it.  failing are the auxiliary tables whose
\* DELETE fails; outcome names the other statement that fails, if any.
ReaperPurgeBatch(failing, outcome) ==
    /\ wpc = "purge_batch"
    /\ MayFail(Cardinality(failing) + (IF outcome = "ok" THEN 0 ELSE 1))
    /\ wfaults' = wfaults + Cardinality(failing) + (IF outcome = "ok" THEN 0 ELSE 1)
    /\ \E ids \in Limit(PurgeEligible(CurDB, rc.deleteCutoff)) :
         LET db == CurDB
             tables == {WispAuxTables[k] : k \in 1..Len(WispAuxTables)} \ failing
         IN IF outcome = "select batch" \/ ids = {}
              THEN /\ failing = {}
                   /\ outcome \in {"ok", "select batch"}
                        \cup (IF totalDeleted > 0 THEN {"commit"} ELSE {})
                   /\ IF outcome = "select batch"
                        THEN /\ purgeErrors' = purgeErrors + 1
                             /\ UNCHANGED <<commits, rc>>
                        ELSE /\ commits' = IF totalDeleted > 0
                                             THEN DoltCommit(db, "purge", totalDeleted,
                                                             outcome # "commit")
                                             ELSE commits
                             /\ rc' = [rc EXCEPT !.totalPurged = @ + totalDeleted]
                             /\ UNCHANGED purgeErrors
                   /\ lastErr' = IF outcome = "select batch" THEN outcome ELSE "none"
                   /\ dbCalls' = Returned(db, "purge", totalDeleted > 0,
                                          outcome = "select batch")
                   /\ autocommit' = DeferredRestore(outcome = "select batch")
                   /\ dbIdx' = dbIdx + 1
                   /\ wpc' = "purge"
                   /\ UNCHANGED <<wisps, wisp_dependencies, auxRows, totalDeleted,
                                  nBatches>>
              ELSE /\ failing \subseteq {WispAuxTables[k] : k \in 1..Len(WispAuxTables)}
                   /\ outcome \in {"ok", "delete wisps batch"}
                   /\ auxRows' = [auxRows EXCEPT ![db] = DeleteAux(db, tables, ids)]
                   /\ wisp_dependencies' =
                        IF "wisp_dependencies" \in tables
                          THEN [wisp_dependencies EXCEPT
                                  ![db] = {wd \in @ : wd.issue_id \notin ids}]
                          ELSE wisp_dependencies
                   /\ IF outcome = "delete wisps batch"
                        THEN /\ purgeErrors' = purgeErrors + 1
                             /\ lastErr' = outcome
                             /\ dbCalls' = Returned(db, "purge",
                                                    \/ totalDeleted > 0
                                                    \/ auxRows' # auxRows
                                                    \/ wisp_dependencies' # wisp_dependencies,
                                                    TRUE)
                             /\ autocommit' = DeferredRestore(TRUE)
                             /\ dbIdx' = dbIdx + 1
                             /\ wpc' = "purge"
                             /\ UNCHANGED <<wisps, totalDeleted, nBatches>>
                        ELSE /\ wisps' = [wisps EXCEPT ![db] = DeletePrimary(@, ids)]
                             /\ totalDeleted' = totalDeleted + Cardinality(ids)
                             /\ nBatches' = nBatches + 1
                             /\ UNCHANGED <<purgeErrors, lastErr, autocommit, dbIdx, wpc,
                                            dbCalls>>
                   /\ UNCHANGED <<commits, rc>>
    /\ UNCHANGED <<patrolConfig, issues, labels, dependencies, reapErrors,
                   autoCloseErrors, digestTotal, mol>>
    /\ UNCHANGED reapOthers

\* reaperPurge between its two loops
ReaperPurgeEnd ==
    /\ wpc = "purge"
    /\ dbIdx > Len(rc.databases)
    /\ wpc' = "mail"
    /\ dbIdx' = 1
    /\ UNCHANGED <<dbCalls, patrolConfig, dbTables, autocommit, commits, rc, reapErrors,
                   purgeErrors, autoCloseErrors, digestTotal, totalDeleted, nBatches,
                   lastErr, mol, wfaults>>
    /\ UNCHANGED reapOthers

\* one iteration of the second loop of reaperPurge: purgeOldMailInDB(dbName,
\* mailCutoff) up to its call of batchDeleteRows.  The function takes no
\* dryRun argument.
ReaperMailDB(outcome) ==
    /\ wpc = "mail"
    /\ dbIdx <= Len(rc.databases)
    /\ LET db == CurDB
           count == IF validDBName(db) /\ db \in ServerDBs
                      THEN Cardinality(MailEligible(db, ReapNow - defaultMailDeleteAge))
                      ELSE 0
       IN IF invalidDBName(db)
            THEN /\ outcome = "ok"
                 /\ dbIdx' = dbIdx + 1
                 /\ UNCHANGED <<autocommit, wpc, digestTotal, totalDeleted, nBatches,
                                lastErr, dbCalls>>
            ELSE /\ outcome \in
                      IF db \notin ServerDBs
                        THEN {FirstStatement("mail", rc.dryRun)}
                        ELSE {"ok", "count mail"}
                             \cup (IF count > 0 THEN {"disable autocommit"} ELSE {})
                 /\ lastErr' = IF outcome = "ok" THEN "none" ELSE outcome
                 /\ digestTotal' = IF outcome = "count mail" THEN 0 ELSE count
                 /\ IF outcome # "ok" \/ count = 0
                      THEN /\ dbIdx' = dbIdx + 1
                           /\ dbCalls' = Returned(db, "mail", FALSE, outcome # "ok")
                           /\ UNCHANGED <<autocommit, wpc, totalDeleted, nBatches>>
                      ELSE /\ autocommit' = FALSE
                           /\ totalDeleted' = 0
                           /\ nBatches' = 0
                           /\ wpc' = "mail_batch"
                           /\ UNCHANGED <<dbIdx, dbCalls>>
    /\ wfaults' = IF outcome = "ok" \/ CurDB \notin ServerDBs
                    THEN wfaults ELSE wfaults + 1
    /\ (outcome # "ok" /\ CurDB \in ServerDBs => MayFail(1))
    /\ UNCHANGED <<patrolConfig, dbTables, commits, rc, reapErrors, purgeErrors,
                   autoCloseErrors, mol>>
    /\ UNCHANGED reapOthers

\* one iteration of the loop of batchDeleteRows for the issues table, and,
\* when the loop ends, the rest of purgeOldMailInDB and of the iteration of
\* reaperPurge that called it
ReaperMailBatch(failing, outcome) ==
    /\ wpc = "mail_batch"
    /\ MayFail(Cardinality(failing) + (IF outcome = "ok" THEN 0 ELSE 1))
    /\ wfaults' = wfaults + Cardinality(failing) + (IF outcome = "ok" THEN 0 ELSE 1)
    /\ \E ids \in Limit(MailEligible(CurDB, ReapNow - defaultMailDeleteAge)) :
         LET db == CurDB
             tables == {IssueAuxTables[k] : k \in 1..Len(IssueAuxTables)} \ failing
         IN IF outcome = "select batch" \/ ids = {}
              THEN /\ failing = {}
                   /\ outcome \in {"ok", "select batch"}
                        \cup (IF totalDeleted > 0 THEN {"commit"} ELSE {})
                   /\ IF outcome = "select batch"
                        THEN UNCHANGED <<commits, rc>>
                        ELSE /\ commits' = IF totalDeleted > 0
                                             THEN DoltCommit(db, "mail", totalDeleted,
                                                             outcome # "commit")
                                             ELSE commits
                             /\ rc' = [rc EXCEPT !.totalMailPurged = @ + totalDeleted]
                   /\ lastErr' = IF outcome = "select batch" THEN outcome ELSE "none"
                   /\ dbCalls' = Returned(db, "mail", totalDeleted > 0,
                                          outcome = "select batch")
                   /\ autocommit' = DeferredRestore(outcome = "select batch")
                   /\ dbIdx' = dbIdx + 1
                   /\ wpc' = "mail"
                   /\ UNCHANGED <<issues, labels, dependencies, auxRows, totalDeleted,
                                  nBatches>>
              ELSE /\ failing \subseteq {IssueAuxTables[k] : k \in 1..Len(IssueAuxTables)}
                   /\ outcome \in {"ok", "delete issues batch"}
                   /\ auxRows' = [auxRows EXCEPT ![db] = DeleteAux(db, tables, ids)]
                   /\ labels' =
                        IF "labels" \in tables
                          THEN [labels EXCEPT ![db] = {l \in @ : l.issue_id \notin ids}]
                          ELSE labels
                   /\ dependencies' =
                        IF "dependencies" \in tables
                          THEN [dependencies EXCEPT
                                  ![db] = {dp \in @ : dp.issue_id \notin ids}]
                          ELSE dependencies
                   /\ IF outcome = "delete issues batch"
                        THEN /\ lastErr' = outcome
                             /\ dbCalls' = Returned(db, "mail",
                                                    \/ totalDeleted > 0
                                                    \/ auxRows' # auxRows
                                                    \/ labels' # labels
                                                    \/ dependencies' # dependencies,
                                                    TRUE)
                             /\ autocommit' = DeferredRestore(TRUE)
                             /\ dbIdx' = dbIdx + 1
                             /\ wpc' = "mail"
                             /\ UNCHANGED <<issues, totalDeleted, nBatches>>
                        ELSE /\ issues' = [issues EXCEPT ![db] = DeletePrimary(@, ids)]
                             /\ totalDeleted' = totalDeleted + Cardinality(ids)
                             /\ nBatches' = nBatches + 1
                             /\ UNCHANGED <<lastErr, autocommit, dbIdx, wpc, dbCalls>>
                   /\ UNCHANGED <<commits, rc>>
    /\ UNCHANGED <<patrolConfig, wisps, wisp_dependencies, reapErrors, purgeErrors,
                   autoCloseErrors, digestTotal, mol>>
    /\ UNCHANGED reapOthers

\* reaperPurge after its second loop: the purge step of the molecule
ReaperMailEnd ==
    /\ wpc = "mail"
    /\ dbIdx > Len(rc.databases)
    /\ mol' = StepDone("purge", purgeErrors)
    /\ wpc' = "autoclose"
    /\ dbIdx' = 1
    /\ autoCloseErrors' = 0
    /\ UNCHANGED <<dbCalls, patrolConfig, dbTables, autocommit, commits, rc, reapErrors,
                   purgeErrors, digestTotal, totalDeleted, nBatches, lastErr, wfaults>>
    /\ UNCHANGED reapOthers

\* one iteration of the loop of reaperAutoClose:
\* autoCloseStaleIssuesInDB(dbName, staleCutoff, dryRun)
ReaperAutoCloseDB(outcome) ==
    /\ wpc = "autoclose"
    /\ dbIdx <= Len(rc.databases)
    /\ LET db == CurDB
           eligible == IF validDBName(db) /\ db \in ServerDBs
                         THEN StaleEligible(db, ReapNow - defaultStaleIssueAge) ELSE {}
           count == Cardinality(eligible)
           failed == outcome \notin {"ok", "commit"}
           updated == ~failed /\ count > 0 /\ ~rc.dryRun
       IN IF invalidDBName(db)
            THEN /\ outcome = "ok"
                 /\ dbIdx' = dbIdx + 1
                 /\ UNCHANGED <<issues, commits, rc, autoCloseErrors, lastErr, dbCalls,
                                autocommit>>
            ELSE /\ dbCalls' = Returned(db, "auto-close", updated, failed)
                 /\ autocommit' =
                      IF /\ count > 0 /\ ~rc.dryRun
                         /\ outcome \notin {"count stale issues", "disable autocommit"}
                        THEN DeferredRestore(failed) ELSE autocommit
                 /\ outcome \in
                      IF db \notin ServerDBs
                        THEN {FirstStatement("auto-close", rc.dryRun)}
                        ELSE {"ok", "count stale issues"}
                             \cup (IF count > 0 /\ ~rc.dryRun
                                     THEN {"disable autocommit", "auto-close stale issues",
                                           "commit"}
                                     ELSE {})
                 /\ issues' = IF updated
                                THEN [issues EXCEPT ![db] = CloseIssues(db, eligible)]
                                ELSE issues
                 /\ commits' = IF updated
                                 THEN DoltCommit(db, "auto-close", count, outcome # "commit")
                                 ELSE commits
                 /\ lastErr' = IF failed THEN outcome ELSE "none"
                 /\ autoCloseErrors' = IF failed THEN autoCloseErrors + 1
                                       ELSE autoCloseErrors
                 /\ rc' = IF failed THEN rc
                          ELSE [rc EXCEPT !.totalAutoClosed = @ + count]
                 /\ dbIdx' = NextDatabase(failed)
    /\ wfaults' = IF outcome = "ok" \/ CurDB \notin ServerDBs
                    THEN wfaults ELSE wfaults + 1
    /\ (outcome # "ok" /\ CurDB \in ServerDBs => MayFail(1))
    /\ UNCHANGED <<patrolConfig, wisps, wisp_dependencies, labels, dependencies,
                   auxRows, wpc, reapErrors, purgeErrors, digestTotal,
                   totalDeleted, nBatches, mol>>
    /\ UNCHANGED reapOthers

\* reaperAutoClose after its loop: the auto-close step of the molecule
ReaperAutoCloseEnd ==
    /\ wpc = "autoclose"
    /\ dbIdx > Len(rc.databases)
    /\ mol' = StepDone("auto-close", autoCloseErrors)
    /\ wpc' = "report"
    /\ UNCHANGED <<dbCalls, patrolConfig, dbTables, autocommit, commits, rc, dbIdx, reapErrors,
                   purgeErrors, autoCloseErrors, digestTotal, totalDeleted, nBatches,
                   lastErr, wfaults>>
    /\ UNCHANGED reapOthers

\* reaperReport, and the deferred mol.close() of reapWisps
ReaperReport ==
    /\ wpc = "report"
    /\ mol' = mol \o <<<<"report", "closed">>, <<"molecule", "closed">>>>
    /\ wpc' = "done"
    /\ UNCHANGED <<dbCalls, patrolConfig, dbTables, autocommit, commits, rc, dbIdx, reapErrors,
                   purgeErrors, autoCloseErrors, digestTotal, totalDeleted, nBatches,
                   lastErr, wfaults>>
    /\ UNCHANGED reapOthers

ReapOutcomes ==
    {"ok", "commit", "dry-run count stale wisps", "count open wisps",
     "disable autocommit", "close stale wisps", "digest query", "select batch",
     "delete wisps batch", "count mail", "delete issues batch",
     "count stale issues", "auto-close stale issues"}

ReapNext ==
    \/ ReaperStart
    \/ \E outcome \in ReapOutcomes : ReaperReapDB(outcome)
    \/ ReaperReapEnd
    \/ \E outcome \in ReapOutcomes : ReaperPurgeDB(outcome)
    \/ \E failing \in SUBSET {WispAuxTables[k] : k \in 1..Len(WispAuxTables)},
          outcome \in ReapOutcomes : ReaperPurgeBatch(failing, outcome)
    \/ ReaperPurgeEnd
    \/ \E outcome \in ReapOutcomes : ReaperMailDB(outcome)
    \/ \E failing \in SUBSET {IssueAuxTables[k] : k \in 1..Len(IssueAuxTables)},
          outcome \in ReapOutcomes : ReaperMailBatch(failing, outcome)
    \/ ReaperMailEnd
    \/ \E outcome \in ReapOutcomes : ReaperAutoCloseDB(outcome)
    \/ ReaperAutoCloseEnd
    \/ ReaperReport

(***************************************************************************)
(* The patrol scheduler of the daemon, and the doctor dog                  *)
(* (internal/daemon/doctor_dog.go).  Each patrol has its own ticker; a     *)
(* tick invokes the patrol's handler on its own goroutine unless an        *)
(* invocation of that patrol is still in progress.                         *)
(***************************************************************************)
Patrols == {"wisp_reaper", "doctor_dog"}

\* the scheduler's test before it invokes a handler: an invocation of the
\* patrol is in progress
NeverBusy(patrol) == FALSE
Busy(patrol) == running[patrol] > 0

\* the daemon has no scheduler in the behaviour
SchedIdle ==
    /\ ticks = [p \in Patrols |-> 0]
    /\ started = [p \in Patrols |-> 0]
    /\ dropped = [p \in Patrols |-> 0]
    /\ running = [p \in Patrols |-> 0]
    /\ dogpc = "off"
    /\ dogMols = <<>>

\* the patrol configurations of daemon.json: no file, no patrols section,
\* and a section in which each patrol's block is missing, disabled or enabled
SchedConfigs ==
    {NilConfig, NilPatrols}
    \cup {DaemonPatrolConfig(wr, dd) :
            wr \in {NoWispReaper, WispReaperConfig(FALSE, FALSE, <<"hq">>),
                    WispReaperConfig(TRUE, FALSE, <<"hq">>)},
            dd \in {NoDoctorDog, DoctorDogConfig(FALSE), DoctorDogConfig(TRUE)}}

\* a daemon that has started on the fixed town with any configuration; no
\* tick has fired and no statement fails
SchedInit ==
    /\ patrolConfig \in SchedConfigs
    /\ FixedTown
    /\ autocommit = TRUE
    /\ commits = <<>>
    /\ rc = NewCycle(patrolConfig.Patrols.WispReaper)
    /\ wpc = "off"
    /\ dbIdx = 1
    /\ reapErrors = 0
    /\ purgeErrors = 0
    /\ autoCloseErrors = 0
    /\ digestTotal = 0
    /\ totalDeleted = 0
    /\ nBatches = 0
    /\ lastErr = "none"
    /\ mol = <<>>
    /\ dbCalls = <<>>
    /\ wfaults = MaxFaults
    /\ SchedIdle

\* the ticker of patrol fires: the handler is invoked, or the tick is dropped
\* when an invocation is in progress
Tick(patrol) ==
    /\ ticks[patrol] < MaxTicks
    /\ ticks' = [ticks EXCEPT ![patrol] = @ + 1]
    /\ IF Busy(patrol)
         THEN /\ dropped' = [dropped EXCEPT ![patrol] = @ + 1]
              /\ UNCHANGED <<started, running, dogpc, rc, wpc, dbIdx, reapErrors,
                             purgeErrors, autoCloseErrors, digestTotal, totalDeleted,
                             nBatches, lastErr, mol, dbCalls>>
         ELSE /\ started' = [started EXCEPT ![patrol] = @ + 1]
              /\ running' = [running EXCEPT ![patrol] = @ + 1]
              /\ UNCHANGED dropped
              /\ IF patrol = "doctor_dog"
                   THEN /\ dogpc' = "idle"
                        /\ UNCHANGED <<rc, wpc, dbIdx, reapErrors, purgeErrors,
                                       autoCloseErrors, digestTotal, totalDeleted,
                                       nBatches, lastErr, mol, dbCalls>>
                   ELSE /\ wpc' = "idle"
                        /\ rc' = NewCycle(patrolConfig.Patrols.WispReaper)
                        /\ dbIdx' = 1
                        /\ reapErrors' = 0
                        /\ purgeErrors' = 0
                        /\ autoCloseErrors' = 0
                        /\ digestTotal' = 0
                        /\ totalDeleted' = 0
                        /\ nBatches' = 0
                        /\ lastErr' = "none"
                        /\ mol' = <<>>
                        /\ dbCalls' = <<>>
                        /\ UNCHANGED dogpc
    /\ UNCHANGED <<patrolConfig, dbTables, autocommit, commits, wfaults, dogMols>>
    /\ UNCHANGED schedOthers

\* runDoctorDog: the patrol switch and pourDogMolecule, which returns a
\* molecule with an empty rootID when the pour fails
RunDoctorDog(poured) ==
    /\ dogpc = "idle"
    /\ dogpc' = "done"
    /\ IF patrolDisabled("doctor_dog")
         THEN /\ poured
              /\ UNCHANGED dogMols
         ELSE dogMols' = Append(dogMols, IF poured THEN "mol-dog-doctor" ELSE "")
    /\ UNCHANGED <<ticks, started, dropped, running>>
    /\ UNCHANGED reapVars
    /\ UNCHANGED schedOthers

\* the handler of patrol has returned and its goroutine ends
HandlerReturn(patrol) ==
    /\ running[patrol] > 0
    /\ IF patrol = "doctor_dog" THEN dogpc = "done" ELSE wpc = "done"
    /\ running' = [running EXCEPT ![patrol] = @ - 1]
    /\ UNCHANGED <<ticks, started, dropped, dogpc, dogMols>>
    /\ UNCHANGED reapVars
    /\ UNCHANGED schedOthers

SchedNext ==
    \/ \E patrol \in Patrols : Tick(patrol)
    \/ \E poured \in BOOLEAN : RunDoctorDog(poured)
    \/ \E patrol \in Patrols : HandlerReturn(patrol)
    \/ ReapNext

(***************************************************************************)
(* gt daemon start (internal/cmd/daemon.go).  The command spawns a         *)
(* detached gt daemon run, sleeps, and reads the PID file back.  The       *)
(* daemon process itself takes the PID file under a file lock or exits.    *)
(***************************************************************************)
Starts == 1..NumStarts
\* no PID: the PID file does not exist
NoPid == 0
\* the PID of a daemon that runs before any of the calls
OldDaemon == 1
\* daemonCmd.Process.Pid of the child the call c spawns
ChildPid(c) == OldDaemon + c
Pids == {OldDaemon} \cup {ChildPid(c) : c \in Starts}

\* daemon.IsRunning(townRoot): running, pid
IsRunning == [running |-> pidFile # NoPid, pid |-> pidFile]

StartIdle ==
    /\ pidFile = NoPid
    /\ daemons = [p \in Pids |-> "none"]
    /\ startpc = [c \in Starts |-> "off"]
    /\ startResult = [c \in Starts |-> "none"]

\* a town with or without a running daemon, and NumStarts calls of gt
\* daemon start about to be made
StartInit ==
    /\ \E old \in BOOLEAN :
          /\ pidFile = IF old THEN OldDaemon ELSE NoPid
          /\ daemons = [p \in Pids |-> IF old /\ p = OldDaemon THEN "running" ELSE "none"]
    /\ startpc = [c \in Starts |-> "call"]
    /\ startResult = [c \in Starts |-> "none"]

\* the error of the first check of runDaemonStart
AlreadyRunningBeforeCall == "error: daemon already running"

\* runDaemonStart: the check before the spawn
StartCheck(c) ==
    /\ startpc[c] = "call"
    /\ IF IsRunning.running
         THEN /\ startResult' = [startResult EXCEPT ![c] = AlreadyRunningBeforeCall]
              /\ startpc' = [startpc EXCEPT ![c] = "returned"]
         ELSE /\ startpc' = [startpc EXCEPT ![c] = "spawn"]
              /\ UNCHANGED startResult
    /\ UNCHANGED <<pidFile, daemons>>
    /\ UNCHANGED startOthers

\* runDaemonStart: daemonCmd.Start() of gt daemon run, then the sleep begins
StartSpawn(c) ==
    /\ startpc[c] = "spawn"
    /\ daemons' = [daemons EXCEPT ![ChildPid(c)] = "starting"]
    /\ startpc' = [startpc EXCEPT ![c] = "sleep"]
    /\ UNCHANGED <<pidFile, startResult>>
    /\ UNCHANGED startOthers

\* gt daemon run: the process takes the PID file under the lock, or exits
\* quietly when another daemon holds it
DaemonRun(pid) ==
    /\ daemons[pid] = "starting"
    /\ IF pidFile = NoPid
         THEN /\ pidFile' = pid
              /\ daemons' = [daemons EXCEPT ![pid] = "running"]
         ELSE /\ daemons' = [daemons EXCEPT ![pid] = "exited"]
              /\ UNCHANGED pidFile
    /\ UNCHANGED <<startpc, startResult>>
    /\ UNCHANGED startOthers

\* clean shutdown of a daemon: the PID file is removed
DaemonExit(pid) ==
    /\ daemons[pid] = "running"
    /\ pidFile' = NoPid
    /\ daemons' = [daemons EXCEPT ![pid] = "exited"]
    /\ UNCHANGED <<startpc, startResult>>
    /\ UNCHANGED startOthers

\* runDaemonStart after the sleep: the second check and the PID comparison.
\* The sleep does not wait for the child, which may not have run yet.
StartVerify(c) ==
    /\ startpc[c] = "sleep"
    /\ startResult' = [startResult EXCEPT ![c] =
          IF ~IsRunning.running THEN "error: daemon failed to start"
          ELSE IF IsRunning.pid # ChildPid(c) THEN "already running"
          ELSE "started"]
    /\ startpc' = [startpc EXCEPT ![c] = "returned"]
    /\ UNCHANGED <<pidFile, daemons>>
    /\ UNCHANGED startOthers

StartNext ==
    \/ \E c \in Starts : StartCheck(c)
    \/ \E c \in Starts : StartSpawn(c)
    \/ \E pid \in Pids : DaemonRun(pid)
    \/ \E pid \in Pids : DaemonExit(pid)
    \/ \E c \in Starts : StartVerify(c)

(***************************************************************************)
(* Self-managed completion (docs/design/polecat-self-managed-completion.md): *)
(* gt done of a polecat, the witness as safety net, and the refinery that  *)
(* polls for open merge-request beads.                                     *)
(***************************************************************************)
Polecats == 1..NumPolecats

\* the steps of gt done, in the order of the proposed flow: 1 validate, 2
\* push, 3 and 4 MR bead and completion metadata, 5 nudge, 6 agent_state,
\* 7 to 9 clear hook, sync worktree, session idle
DoneSteps == <<"validate", "push", "mr", "nudge", "idle", "cleanup">>
StepNo(step) == CHOOSE k \in 1..Len(DoneSteps) : DoneSteps[k] = step
IdleBeforePush(step) ==
    CASE step = "validate" -> "idle"
      [] step = "idle" -> "push"
      [] step = "nudge" -> "cleanup"
      [] step = "cleanup" -> "end"
      [] OTHER -> DoneSteps[StepNo(step) + 1]
\* the step that follows a step that succeeded; "end" is the idle session
StepAfter(step) ==
    IF step = "cleanup" THEN "end" ELSE DoneSteps[StepNo(step) + 1]

\* the position of a session that runs a step of gt done
InDone(p) == donepc[p] \in {DoneSteps[k] : k \in 1..Len(DoneSteps)}

\* the runs of gt done that have errored out or crashed so far
RECURSIVE EndedRuns(_)
EndedRuns(n) ==
    IF n = 0 THEN 0
    ELSE EndedRuns(n - 1)
         + (IF donepc[n] \in {"work", "failed", "crashed"} THEN run[n] ELSE run[n] - 1)
CanFail == EndedRuns(NumPolecats) < MaxCrashes

\* mrID of runDone: the id of the polecat's MR bead, "" while there is none
mrID(p) == IF mrBead[p] = "none" THEN "" ELSE <<"mr", p>>

DoneIdle ==
    /\ agentState = [p \in Polecats |-> "idle"]
    /\ donepc = [p \in Polecats |-> "off"]
    /\ run = [p \in Polecats |-> 0]
    /\ doneIntent = [p \in Polecats |-> FALSE]
    /\ hookBead = [p \in Polecats |-> FALSE]
    /\ pushed = [p \in Polecats |-> FALSE]
    /\ mrBead = [p \in Polecats |-> "none"]
    /\ metadata = [p \in Polecats |-> FALSE]
    /\ nudges = {}
    /\ witnessUp = FALSE
    /\ refpc = "off"
    /\ queue = {}
    /\ nudgeSent = {}
    /\ nudgesLost = {}
    /\ idleWrites = [p \in Polecats |-> {}]
    /\ ended = [p \in Polecats |-> ""]
    /\ polls = [p \in Polecats |-> 0]

\* every polecat works on its hooked bead; the witness is up or down; the
\* refinery sleeps between two patrol cycles
DoneInit ==
    /\ agentState = [p \in Polecats |-> "working"]
    /\ donepc = [p \in Polecats |-> "work"]
    /\ run = [p \in Polecats |-> 0]
    /\ doneIntent = [p \in Polecats |-> FALSE]
    /\ hookBead = [p \in Polecats |-> TRUE]
    /\ pushed = [p \in Polecats |-> FALSE]
    /\ mrBead = [p \in Polecats |-> "none"]
    /\ metadata = [p \in Polecats |-> FALSE]
    /\ nudges = {}
    /\ witnessUp \in BOOLEAN
    /\ refpc = "sleeping"
    /\ queue = {}
    /\ nudgeSent = {}
    /\ nudgesLost = {}
    /\ idleWrites = [p \in Polecats |-> {}]
    /\ ended = [p \in Polecats |-> ""]
    /\ polls = [p \in Polecats |-> 0]

refineryVars == <<refpc, queue, polls, nudgesLost>>

\* gt done errors out: the session ends at the step it is at
ErrorsOut(p, step) ==
    /\ CanFail
    /\ donepc' = [donepc EXCEPT ![p] = "failed"]
    /\ ended' = [ended EXCEPT ![p] = step]

\* the polecat runs gt done: the done-intent label is set before anything
\* else, then step 1 validates the clean state (no uncommitted changes)
DoneStart(p, clean) ==
    /\ donepc[p] = "work"
    /\ doneIntent' = [doneIntent EXCEPT ![p] = TRUE]
    /\ run' = [run EXCEPT ![p] = run[p] + 1]
    /\ IF clean
         THEN /\ donepc' = [donepc EXCEPT ![p] = StepAfter("validate")]
              /\ ended' = [ended EXCEPT ![p] = ""]
         ELSE ErrorsOut(p, "validate")
    /\ UNCHANGED <<agentState, hookBead, pushed, mrBead, metadata, nudges, witnessUp,
                   refineryVars, nudgeSent, idleWrites>>
    /\ UNCHANGED doneOthers

\* step 2: push branch to origin; when the push fails gt done errors out
DonePush(p, ok) ==
    /\ donepc[p] = "push"
    /\ IF ok
         THEN /\ pushed' = [pushed EXCEPT ![p] = TRUE]
              /\ donepc' = [donepc EXCEPT ![p] = StepAfter("push")]
              /\ UNCHANGED ended
         ELSE /\ ErrorsOut(p, "push")
              /\ UNCHANGED pushed
    /\ UNCHANGED <<agentState, run, doneIntent, hookBead, mrBead, metadata, nudges,
                   witnessUp, refineryVars, nudgeSent, idleWrites>>
    /\ UNCHANGED doneOthers

\* steps 3 and 4: create the MR bead (type merge-request, label
\* gt:merge-request) and write the completion metadata to the agent bead; a
\* resumed gt done finds the bead of the run before it
DoneCreateMR(p) ==
    /\ donepc[p] = "mr"
    /\ mrBead' = [mrBead EXCEPT ![p] = IF mrBead[p] = "none" THEN "open" ELSE mrBead[p]]
    /\ metadata' = [metadata EXCEPT ![p] = TRUE]
    /\ donepc' = [donepc EXCEPT ![p] = StepAfter("mr")]
    /\ UNCHANGED <<agentState, run, doneIntent, hookBead, pushed, nudges, witnessUp,
                   refineryVars, nudgeSent, idleWrites, ended>>
    /\ UNCHANGED doneOthers

\* step 5: if mrID != "" { nudgeRefinery(rigName, "MERGE_READY <mr-id>") }
DoneNudge(p) ==
    /\ donepc[p] = "nudge"
    /\ IF mrID(p) # ""
         THEN /\ nudges' = nudges \cup {p}
              /\ nudgeSent' = nudgeSent \cup {p}
         ELSE UNCHANGED <<nudges, nudgeSent>>
    /\ donepc' = [donepc EXCEPT ![p] = StepAfter("nudge")]
    /\ UNCHANGED <<agentState, run, doneIntent, hookBead, pushed, mrBead, metadata,
                   witnessUp, refineryVars, idleWrites, ended>>
    /\ UNCHANGED doneOthers

\* step 6: setAgentState(agentBeadID, "idle")
DoneSetIdle(p) ==
    /\ donepc[p] = "idle"
    /\ agentState' = [agentState EXCEPT ![p] = "idle"]
    /\ idleWrites' = [idleWrites EXCEPT ![p] = idleWrites[p] \cup {run[p]}]
    /\ donepc' = [donepc EXCEPT ![p] = StepAfter("idle")]
    /\ UNCHANGED <<run, doneIntent, hookBead, pushed, mrBead, metadata, nudges,
                   witnessUp, refineryVars, nudgeSent, ended>>
    /\ UNCHANGED doneOthers

\* steps 7 to 9: clear hook_bead, sync worktree to main and delete the old
\* branch; the session goes idle
DoneCleanup(p) ==
    /\ donepc[p] = "cleanup"
    /\ hookBead' = [hookBead EXCEPT ![p] = FALSE]
    /\ donepc' = [donepc EXCEPT ![p] = StepAfter("cleanup")]
    /\ UNCHANGED <<agentState, run, doneIntent, pushed, mrBead, metadata, nudges,
                   witnessUp, refineryVars, nudgeSent, idleWrites, ended>>
    /\ UNCHANGED doneOthers

\* the polecat crashes during gt done, before the step it is at
DoneCrash(p) ==
    /\ InDone(p)
    /\ CanFail
    /\ donepc' = [donepc EXCEPT ![p] = "crashed"]
    /\ ended' = [ended EXCEPT ![p] = donepc[p]]
    /\ UNCHANGED <<agentState, run, doneIntent, hookBead, pushed, mrBead, metadata,
                   nudges, witnessUp, refineryVars, nudgeSent, idleWrites>>
    /\ UNCHANGED doneOthers

\* witness zombie detection: dead session + done-intent = crashed in done;
\* the witness restarts the session, which discovers done-intent and runs
\* gt done again
WitnessRestart(p) ==
    /\ witnessUp
    /\ donepc[p] \in {"crashed", "failed"}
    /\ doneIntent[p]
    /\ donepc' = [donepc EXCEPT ![p] = "work"]
    /\ UNCHANGED <<agentState, run, doneIntent, hookBead, pushed, mrBead, metadata,
                   nudges, witnessUp, refineryVars, nudgeSent, idleWrites, ended>>
    /\ UNCHANGED doneOthers

\* ListReadyMRs: the open beads with the label gt:merge-request
OnlyNudged == {p \in Polecats : mrBead[p] = "open" /\ p \in nudges}
ListReadyMRs == {p \in Polecats : mrBead[p] = "open"}

\* the poll that starts a patrol cycle of the refinery
Poll ==
    /\ refpc = "sleeping"
    /\ queue' = ListReadyMRs
    /\ refpc' = IF ListReadyMRs = {} THEN "sleeping" ELSE "merging"
    /\ polls' = [p \in Polecats |-> IF p \in ListReadyMRs THEN polls[p] + 1 ELSE polls[p]]
    /\ UNCHANGED nudgesLost

\* the refinery's patrol timer fires
RefineryPatrol ==
    /\ Poll
    /\ UNCHANGED <<agentState, donepc, run, doneIntent, hookBead, pushed, mrBead,
                   metadata, nudges, witnessUp, nudgeSent, idleWrites, ended>>
    /\ UNCHANGED doneOthers

\* a MERGE_READY nudge arrives: it wakes the refinery, which polls at once
\* when it sleeps
RefineryNudged(p) ==
    /\ p \in nudges
    /\ nudges' = nudges \ {p}
    /\ IF refpc = "sleeping" THEN Poll ELSE UNCHANGED refineryVars
    /\ UNCHANGED <<agentState, donepc, run, doneIntent, hookBead, pushed, mrBead,
                   metadata, witnessUp, nudgeSent, idleWrites, ended>>
    /\ UNCHANGED doneOthers

\* a MERGE_READY nudge is lost
NudgeLost(p) ==
    /\ p \in nudges
    /\ nudges' = nudges \ {p}
    /\ nudgesLost' = nudgesLost \cup {p}
    /\ UNCHANGED <<agentState, donepc, run, doneIntent, hookBead, pushed, mrBead,
                   metadata, witnessUp, refpc, queue, polls, nudgeSent, idleWrites, ended>>
    /\ UNCHANGED doneOthers

\* the refinery processes one MR of its queue (serialized by the merge
\* slot) and closes its bead; after the last one the cycle is over
RefineryMerge(p) ==
    /\ refpc = "merging"
    /\ p \in queue
    /\ mrBead' = [mrBead EXCEPT ![p] = "closed"]
    /\ queue' = queue \ {p}
    /\ refpc' = IF queue = {p} THEN "sleeping" ELSE "merging"
    /\ UNCHANGED <<agentState, donepc, run, doneIntent, hookBead, pushed, metadata,
                   nudges, witnessUp, polls, nudgesLost, nudgeSent, idleWrites, ended>>
    /\ UNCHANGED doneOthers

PolecatNext ==
    \/ \E p \in Polecats, clean \in BOOLEAN : DoneStart(p, clean)
    \/ \E p \in Polecats, ok \in BOOLEAN : DonePush(p, ok)
    \/ \E p \in Polecats : DoneCreateMR(p)
    \/ \E p \in Polecats : DoneNudge(p)
    \/ \E p \in Polecats : DoneSetIdle(p)
    \/ \E p \in Polecats : DoneCleanup(p)
    \/ \E p \in Polecats : DoneCrash(p)
    \/ \E p \in Polecats : WitnessRestart(p)
    \/ \E p \in Polecats : NudgeLost(p)

RefineryNext ==
    \/ RefineryPatrol
    \/ \E p \in Polecats : RefineryNudged(p)
    \/ \E p \in Polecats : RefineryMerge(p)

DoneNext == PolecatNext \/ RefineryNext

(***************************************************************************)
(* gt daemon clear-backoff (cmd/daemon.go) and the daemon's restart        *)
(* tracker.  The tracker keeps a crash-loop counter per agent in memory    *)
(* and persists it; the command clears the counter on disk and signals the *)
(* daemon, which reloads its tracker from disk.                            *)
(***************************************************************************)
\* the session identities of the command's examples
Agents == {"deacon", "mayor"}

\* the statements of runDaemonClearBackoff in the order it runs them
SignalBeforeClear(step) ==
    CASE step = "enter" -> "check"
      [] step = "check" -> "signal"
      [] step = "signal" -> "clear"
      [] step = "clear" -> "return"
cbStepAfter(step) ==
    CASE step = "enter" -> "clear"
      [] step = "clear" -> "check"
      [] step = "check" -> "signal"
      [] step = "signal" -> "return"

\* the position after the statement `step` has succeeded
cbGoOn(step) == IF cbStepAfter(step) = "return" THEN "idle" ELSE cbStepAfter(step)

\* daemon.ClearAgentBackoff(townRoot, agentID): the crash-loop state on disk
\* with the counter of agentID reset
ClearAgentBackoff(agentID) == [crashDisk EXCEPT ![agentID] = 0]

\* the daemon's handler of the reload signal: the restart tracker as it is
\* on disk
LoadRestartTracker == crashDisk

BackoffIdle ==
    /\ crashDisk = [a \in Agents |-> 0]
    /\ crashMem = [a \in Agents |-> 0]
    /\ cbpc = "off"
    /\ cbAgent = ""
    /\ cbResult = "none"
    /\ reloadSignals = <<>>
    /\ nHandled = 0
    /\ nClears = 0

\* A town with or without a running daemon, whose agents have crashed any
\* number of times in a row; what the tracker holds is what it persisted.
\* No call of gt daemon start is made.
BackoffInit ==
    /\ \E c \in [Agents -> 0..MaxCrashCount] :
          /\ crashDisk = c
          /\ crashMem = c
    /\ cbpc = "idle"
    /\ cbAgent = ""
    /\ cbResult = "none"
    /\ reloadSignals = <<>>
    /\ nHandled = 0
    /\ nClears = 0
    /\ \E old \in BOOLEAN :
          /\ pidFile = IF old THEN OldDaemon ELSE NoPid
          /\ daemons = [p \in Pids |-> IF old /\ p = OldDaemon THEN "running" ELSE "none"]
    /\ startpc = [c \in Starts |-> "off"]
    /\ startResult = [c \in Starts |-> "none"]

\* runDaemonClearBackoff up to ClearAgentBackoff: the argument and the town
\* root, which workspace.FindFromCwdOrError finds or not
runDaemonClearBackoffEnter(agentID, found) ==
    /\ cbpc = "idle"
    /\ nClears < MaxClears
    /\ nClears' = nClears + 1
    /\ cbAgent' = agentID
    /\ IF found
         THEN /\ cbpc' = cbGoOn("enter")
              /\ cbResult' = "none"
         ELSE /\ cbpc' = "idle"
              /\ cbResult' = "error: not in a Gas Town workspace"
    /\ UNCHANGED <<crashDisk, crashMem, reloadSignals, nHandled>>
    /\ UNCHANGED <<startVars, backoffOthers>>

\* runDaemonClearBackoff: clear the crash loop state on disk, or return the
\* error
runDaemonClearBackoffClear(ok) ==
    /\ cbpc = "clear"
    /\ IF ok
         THEN /\ crashDisk' = ClearAgentBackoff(cbAgent)
              /\ cbpc' = cbGoOn("clear")
              /\ UNCHANGED cbResult
         ELSE /\ cbResult' = "error: clearing backoff"
              /\ cbpc' = "idle"
              /\ UNCHANGED crashDisk
    /\ UNCHANGED <<crashMem, cbAgent, reloadSignals, nHandled, nClears>>
    /\ UNCHANGED <<startVars, backoffOthers>>

\* runDaemonClearBackoff: daemon.IsRunning(townRoot), and the message when
\* the daemon is not running
runDaemonClearBackoffCheck(ok) ==
    /\ cbpc = "check"
    /\ IF ~ok
         THEN /\ cbResult' = "error: checking daemon status"
              /\ cbpc' = "idle"
         ELSE IF IsRunning.running
         THEN /\ cbpc' = cbGoOn("check")
              /\ UNCHANGED cbResult
         ELSE /\ cbResult' = "daemon not running"
              /\ cbpc' = cbGoOn("signal")
    /\ UNCHANGED <<crashDisk, crashMem, cbAgent, reloadSignals, nHandled, nClears>>
    /\ UNCHANGED <<startVars, backoffOthers>>

\* runDaemonClearBackoff: os.FindProcess(pid) and signalDaemonReload, which
\* fails when the daemon has exited since the check
runDaemonClearBackoffSignal(ok) ==
    /\ cbpc = "signal"
    /\ ok => daemons[OldDaemon] = "running"
    /\ IF ok
         THEN /\ reloadSignals' = Append(reloadSignals,
                                         [call |-> nClears, agent |-> cbAgent])
              /\ cbResult' = "daemon reloaded"
              /\ cbpc' = cbGoOn("signal")
         ELSE /\ cbResult' = "error: signaling daemon to reload"
              /\ cbpc' = "idle"
              /\ UNCHANGED reloadSignals
    /\ UNCHANGED <<crashDisk, crashMem, cbAgent, nHandled, nClears>>
    /\ UNCHANGED <<startVars, backoffOthers>>

\* the daemon receives a reload signal and reloads its in-memory restart
\* tracker from disk
DaemonReload ==
    /\ daemons[OldDaemon] = "running"
    /\ nHandled < Len(reloadSignals)
    /\ nHandled' = nHandled + 1
    /\ crashMem' = LoadRestartTracker
    /\ UNCHANGED <<crashDisk, cbpc, cbAgent, cbResult, reloadSignals, nClears>>
    /\ UNCHANGED <<startVars, backoffOthers>>

BackoffNext ==
    \/ \E agentID \in Agents, found \in BOOLEAN : runDaemonClearBackoffEnter(agentID, found)
    \/ \E ok \in BOOLEAN : runDaemonClearBackoffClear(ok)
    \/ \E ok \in BOOLEAN : runDaemonClearBackoffCheck(ok)
    \/ \E ok \in BOOLEAN : runDaemonClearBackoffSignal(ok)
    \/ DaemonReload
    \/ DaemonExit(OldDaemon)

(***************************************************************************)
(* The specifications, one per subsystem.                                  *)
(***************************************************************************)
InitDedup == DedupInit /\ DrainIdle /\ RotIdle /\ ReapIdle /\ SchedIdle /\ StartIdle /\ DoneIdle /\ BackoffIdle
SpecDedup == InitDedup /\ [][DedupNext]_vars

InitDrain == DrainInit /\ DedupIdle /\ RotIdle /\ ReapIdle /\ SchedIdle /\ StartIdle /\ DoneIdle /\ BackoffIdle
SpecDrain == InitDrain /\ [][DrainNext]_vars

InitDrainPlain == DrainInitPlain /\ DedupIdle /\ RotIdle /\ ReapIdle /\ SchedIdle /\ StartIdle /\ DoneIdle /\ BackoffIdle
SpecDrainPlain == InitDrainPlain /\ [][DrainNext]_vars

InitRotate == RotInit /\ DedupIdle /\ DrainIdle /\ ReapIdle /\ SchedIdle /\ StartIdle /\ DoneIdle /\ BackoffIdle
SpecRotate == InitRotate /\ [][RotNext]_vars

InitRotateFresh == RotInitFresh /\ DedupIdle /\ DrainIdle /\ ReapIdle /\ SchedIdle /\ StartIdle /\ DoneIdle /\ BackoffIdle
SpecRotateFresh == InitRotateFresh /\ [][RotNext]_vars

InitRotateTwo == RotInitTwo /\ DedupIdle /\ DrainIdle /\ ReapIdle /\ SchedIdle /\ StartIdle /\ DoneIdle /\ BackoffIdle
SpecRotateTwo == InitRotateTwo /\ [][RotCmdNext]_vars

\* The child processes run beside the daemon and write their logs whenever
\* they like, also in the middle of a rotation.
InitRotateWriter == RotInitTwo /\ DedupIdle /\ DrainIdle /\ ReapIdle /\ SchedIdle /\ StartIdle /\ DoneIdle /\ BackoffIdle
SpecRotateWriter == InitRotateWriter /\ [][RotWriterNext]_vars

InitReaper == ReapInit /\ DedupIdle /\ DrainIdle /\ RotIdle /\ SchedIdle /\ StartIdle /\ DoneIdle /\ BackoffIdle
SpecReaper == InitReaper /\ [][ReapNext]_vars

\* reapWisps runs on its own goroutine and every statement runs under a
\* context with a timeout: a run that has started keeps taking steps.  The
\* runs are those of the town in which statements fail.
InitReaperLive == ReapInitFaulty /\ DedupIdle /\ DrainIdle /\ RotIdle /\ SchedIdle /\ StartIdle /\ DoneIdle /\ BackoffIdle
SpecReaperLive == InitReaperLive /\ [][ReapNext]_vars /\ WF_vars(ReapNext)

InitSched == SchedInit /\ DedupIdle /\ DrainIdle /\ RotIdle /\ StartIdle /\ DoneIdle /\ BackoffIdle
SpecSched == InitSched /\ [][SchedNext]_vars

InitStart == StartInit /\ DedupIdle /\ DrainIdle /\ RotIdle /\ ReapIdle /\ SchedIdle /\ DoneIdle /\ BackoffIdle
SpecStart == InitStart /\ [][StartNext]_vars

InitBackoff == BackoffInit /\ DedupIdle /\ DrainIdle /\ RotIdle /\ ReapIdle /\ SchedIdle /\ DoneIdle
SpecBackoff == InitBackoff /\ [][BackoffNext]_vars

InitDone == DoneInit /\ DedupIdle /\ DrainIdle /\ RotIdle /\ ReapIdle /\ SchedIdle /\ StartIdle /\ BackoffIdle
SpecDone == InitDone /\ [][DoneNext]_vars

\* The refinery's patrol is one loop on the refinery's own session: its
\* timer polls, and the cycle merges what the poll found.  The loop is
\* scheduled fairly: a step of it that stays possible is taken.  Nothing
\* is assumed about the polecats, the witness or the delivery of nudges.
RefineryLoop == RefineryPatrol \/ \E p \in Polecats : RefineryMerge(p)
InitDoneLive == DoneInit /\ DedupIdle /\ DrainIdle /\ RotIdle /\ ReapIdle /\ SchedIdle /\ StartIdle /\ BackoffIdle
SpecDoneLive ==
    /\ InitDoneLive
    /\ [][DoneNext]_vars
    /\ WF_vars(RefineryLoop)

(***************************************************************************)
(* Claims about the deduplicator.                                          *)
(***************************************************************************)
\* no call with this id is between its entry and its return
DedupQuiescent(id) == \A t \in Tasks : dpc[t] = "idle" \/ darg[t] # id

\* C5: for any number of tasks calling AlreadyProcessed concurrently with the
\* same non-empty id, under every interleaving at most one call ever returns
\* false, and once the calls with that id have all returned exactly one of
\* them returned false and all the others returned true.
C5_ExactlyOneFalse ==
    \A id \in MessageIDs \ {""} :
        /\ nFalse[id] <= 1
        /\ (DedupQuiescent(id) /\ nFalse[id] + nTrue[id] >= 1) => nFalse[id] = 1

\* every task has made one call, all with id "m1", and all have returned
C5_Witness ==
    /\ nCalls = NumTasks
    /\ \A t \in Tasks : dpc[t] = "idle" /\ darg[t] = "m1"
    /\ nFalse["m1"] = 1
    /\ nTrue["m1"] = NumTasks - 1

(***************************************************************************)
(* Claims about the mail drainer.                                          *)
(***************************************************************************)
\* the messages the drain selected for deletion
CandidateIds == {candidates[i].id : i \in 1..Len(candidates)}
\* time.Since(msg.Timestamp) at the time of the drain
Age(msg) == DrainNow - msg.Timestamp
NeedsHuman(msg) == HasPrefix(msg.Subject, "HELP:") \/ HasPrefix(msg.Subject, "HANDOFF")

\* C4: after any mail drain, whatever the flags and whatever the age, wisp
\* flag and read flag of the message, every listed message whose subject
\* starts with HELP: or HANDOFF is still in the mailbox and Delete was never
\* called on it.
C4_HelpHandoffPreserved ==
    \A m \in DOMAIN messages :
        NeedsHuman(messages[m]) => (deleteCalls[m] = 0 /\ m \in DOMAIN mailbox)

\* C10: a listed message is selected for deletion if and only if (its subject
\* has a drainable prefix and (--all is set or its age is greater than the
\* threshold)) or (it is a wisp, it is read and its age is greater than the
\* threshold).
C10_SelectionIff ==
    \A m \in DOMAIN messages :
        m \in CandidateIds <=>
            \/ /\ isDrainableMessage(messages[m].Subject)
               /\ (mailDrainAll \/ Age(messages[m]) > mailDrainMaxAge)
            \/ /\ messages[m].Wisp /\ messages[m].Read
               /\ Age(messages[m]) > mailDrainMaxAge

(***************************************************************************)
(* Claims about the log rotator.                                           *)
(***************************************************************************)
\* copyTruncateRotate returned nil for these during the current run
RotatedNow == {rotated[i] : i \in 1..Len(rotated)}
RotatedOk(p) ==
    /\ FileSize(p) = 0
    /\ gz[p][1].exists
    /\ Strays(gz[p]) = {}

\* C6 as stated: after every successful copy-truncate rotation of a log with
\* no concurrent writer, whatever <path>.*.gz files existed beforehand, the
\* log has size 0, <path>.1.gz exists and no <path>.K.gz with K > maxBackups
\* exists.  (The child does not write while a run is in progress.)
C6_AfterRotation ==
    rpc # "idle" => \A p \in RotatedNow : RotatedOk(p)

\* C6 amended: the same, for every rotation before which no <path>.K.gz
\* with K > maxBackups existed.
C6_AfterRotationNoStrays ==
    rpc # "idle" =>
        \A p \in RotatedNow : entryStrays[p] = {} => RotatedOk(p)

\* a second rotation has just succeeded, on a log that had maxBackups backups
\* and nothing else, and left maxBackups backups
C6_Witness ==
    /\ nRuns = 2
    /\ rpc = "stat"
    /\ rotated = <<DaemonLogs[1]>>
    /\ Matches(gz[DaemonLogs[1]]) = 1..logRotationMaxBackups
    /\ gz[DaemonLogs[1]][1].data = Gzip(<<1>>)
    /\ \A k \in 2..logRotationMaxBackups : gz[DaemonLogs[1]][k].data = Gzip(<<0>>)
    /\ FileSize(DaemonLogs[1]) = 0

\* C7: rotation never changes the identity of the log file: on every path
\* through Rotate/ForceRotate, success or per-file error, the log path is
\* never removed, renamed or recreated, so the descriptor a child opened
\* before the run still refers to the file at that path.
C7_LogIdentityKept ==
    \A p \in LogPaths :
        childFd[p] # 0 => (Exists(p) /\ logs[p].ino = childFd[p])

\* two runs are over, one rotated the log and one hit a failing system call
C7_Witness ==
    /\ rpc = "idle"
    /\ nRuns = 2
    /\ nFaults = 1
    /\ rotated = <<DaemonLogs[1]>>
    /\ FileSize(DaemonLogs[1]) = 0
    /\ childFd[DaemonLogs[1]] = logs[DaemonLogs[1]].ino

(***************************************************************************)
(* Claims about the retention engine.                                      *)
(***************************************************************************)
\* the parent-closure predicate as the specification states it: no
\* parent-child row, or a parent-child row whose parent wisp is closed
ParentClosedOrOrphan(db, w) ==
    LET rows == {wd \in wisp_dependencies[db] :
                   wd.issue_id = w /\ wd.type = "parent-child"}
    IN \/ rows = {}
       \/ \E wd \in rows : /\ wd.depends_on_id \in DOMAIN wisps[db]
                           /\ wisps[db][wd.depends_on_id].status = "closed"

\* the wisp w of db is one a reap must close
ShouldReap(db, w) ==
    /\ wisps[db][w].status \in {"open", "hooked", "in_progress"}
    /\ wisps[db][w].created_at < ReapNow - defaultWispMaxAge
    /\ ParentClosedOrOrphan(db, w)

\* the step is a reap of the database CurDB whose UPDATE ran
ReapUpdateRan ==
    /\ wpc = "reap" /\ dbIdx <= Len(rc.databases) /\ dbIdx' = dbIdx + 1
    /\ ~rc.dryRun
    /\ validDBName(CurDB)
    /\ lastErr' \in {"none", "count open wisps"}

\* C1: a non-dry-run reap of a database closes exactly the wisps that, when
\* the UPDATE runs, are open, hooked or in progress, were created before the
\* cutoff and have no parent-child row or a closed parent; every other wisp
\* row of every database is left as it was, and no other step of the reap
\* phase changes a wisp.
C1_ReapClosesExactly ==
    [][wpc = "reap" =>
         \A db \in ServerDBs :
           /\ DOMAIN wisps'[db] = DOMAIN wisps[db]
           /\ \A w \in DOMAIN wisps[db] :
                wisps'[db][w] =
                  IF ReapUpdateRan /\ db = CurDB /\ ShouldReap(db, w)
                    THEN [wisps[db][w] EXCEPT !.status = "closed",
                                              !.closed_at = ReapNow]
                    ELSE wisps[db][w]]_vars

\* a reap has closed a stale orphan and left alone a stale wisp whose parent
\* was that orphan, still open when the UPDATE ran
C1_Witness ==
    /\ wpc = "purge" /\ ~rc.dryRun
    /\ \E a, b \in DOMAIN wisps["hq"] :
         /\ wisps["hq"][a].status = "closed" /\ wisps["hq"][a].closed_at = ReapNow
         /\ wisps["hq"][b].status = "open"
         /\ wisps["hq"][b].created_at < rc.cutoff
         /\ [issue_id |-> b, depends_on_id |-> a, type |-> "parent-child"]
              \in wisp_dependencies["hq"]

\* C2: every wisp row a step deletes was, before that step, closed, closed
\* before the delete cutoff, and had no parent-child row or a closed parent.
C2_PurgedWereEligible ==
    [][\A db \in ServerDBs :
         \A w \in DOMAIN wisps[db] \ DOMAIN wisps'[db] :
           /\ wisps[db][w].status = "closed"
           /\ wisps[db][w].closed_at < ReapNow - defaultWispDeleteAge
           /\ ParentClosedOrOrphan(db, w)]_vars

\* a batch has been deleted while a wisp closed exactly at the delete cutoff
\* is still there, and no eligible row is left
C2_Witness ==
    /\ wpc = "purge_batch" /\ nBatches >= 1 /\ totalDeleted >= 1
    /\ \E b \in DOMAIN wisps["hq"] :
         /\ wisps["hq"][b].status = "closed"
         /\ wisps["hq"][b].closed_at = rc.deleteCutoff
    /\ \A w \in DOMAIN wisps["hq"] :
         ~(/\ wisps["hq"][w].status = "closed"
           /\ wisps["hq"][w].closed_at < rc.deleteCutoff
           /\ ParentClosedOrOrphan("hq", w))

\* C3: with dry_run = true no step of the run changes a row of any table of
\* any database or calls DOLT_COMMIT.
C3_DryRunChangesNothing ==
    [][patrolConfig.Patrols.WispReaper.dry_run => UNCHANGED <<dbTables, commits>>]_vars

\* the stale-issue predicate as the specification states it
ShouldAutoClose(db, i) ==
    /\ issues[db][i].status \in {"open", "in_progress"}
    /\ issues[db][i].updated_at < ReapNow - defaultStaleIssueAge
    /\ issues[db][i].priority > 1
    /\ issues[db][i].issue_type # "epic"
    /\ ~\E dp \in dependencies[db] :
          \/ /\ dp.issue_id = i
             /\ dp.depends_on_id \in DOMAIN issues[db]
             /\ issues[db][dp.depends_on_id].status \in {"open", "in_progress"}
          \/ /\ dp.depends_on_id = i
             /\ dp.issue_id \in DOMAIN issues[db]
             /\ issues[db][dp.issue_id].status \in {"open", "in_progress"}

\* C8: every issue a step closes satisfied the stale-issue predicate before
\* that step, so an issue of priority 0 or 1, an epic, and stale issues
\* linked by a dependency to an open issue stay as they are.
C8_AutoClosedWereStale ==
    [][\A db \in ServerDBs :
         \A i \in DOMAIN issues[db] \cap DOMAIN issues'[db] :
           issues'[db][i] # issues[db][i] => ShouldAutoClose(db, i)]_vars

\* the auto-close step has closed an issue and left open a stale issue that
\* is an epic or has priority 1
C8_Witness ==
    /\ wpc = "report" /\ ~rc.dryRun
    /\ \E i, j \in DOMAIN issues["hq"] :
         /\ issues["hq"][i].status = "closed" /\ issues["hq"][i].closed_at = ReapNow
         /\ issues["hq"][j].status = "open"
         /\ issues["hq"][j].updated_at < ReapNow - defaultStaleIssueAge
         /\ (issues["hq"][j].priority <= 1 \/ issues["hq"][j].issue_type = "epic")

\* C9: when the non-dry-run purge of the first database has returned without
\* error and deleteBatchSize + 1 rows were eligible when it started, it has
\* deleted two batches and counted deleteBatchSize + 1 rows.
C9_TwoBatchesAllRows ==
    (/\ wpc = "purge" /\ dbIdx = 2 /\ ~rc.dryRun /\ lastErr = "none"
     /\ digestTotal = deleteBatchSize + 1)
    => (nBatches = 2 /\ rc.totalPurged = deleteBatchSize + 1)


(***************************************************************************)
(* Claims about a whole retention run.                                     *)
(***************************************************************************)
Phases == <<"reap", "purge", "mail", "auto-close">>

\* the configured databases of the cycle whose name is an identifier
ValidDatabases == {rc.databases[k] : k \in {x \in 1..Len(rc.databases) :
                                              validDBName(rc.databases[x])}}

\* the per-database function of phase has been called for db and has returned
Attempted(db, phase) ==
    \E k \in 1..Len(dbCalls) : dbCalls[k].db = db /\ dbCalls[k].phase = phase

\* C11: in a run with at least one configured database, whatever statement
\* fails, the run goes on to its end: every valid database has been attempted
\* in each of reap, wisp purge, mail purge and auto-close, and the report
\* step has been reached and closed.
C11_ErrorsNeverAbort ==
    (wpc = "reap")
      ~> (/\ wpc = "done"
          /\ \A db \in ValidDatabases : \A k \in 1..Len(Phases) :
                Attempted(db, Phases[k])
          /\ \E k \in 1..Len(mol) : mol[k] = <<"report", "closed">>)

\* a run over hq, an invalid name and beads has ended; a statement of the
\* reap of hq failed, and beads was reaped after it
C11_Witness ==
    /\ wpc = "done"
    /\ rc.databases = <<"hq", "bad-name", "beads">>
    /\ reapErrors = 1
    /\ \E k \in 1..Len(dbCalls) :
         /\ dbCalls[k].db = "hq" /\ dbCalls[k].phase = "reap" /\ dbCalls[k].err
         /\ dbCalls[k + 1].db = "beads" /\ dbCalls[k + 1].phase = "reap"
         /\ ~dbCalls[k + 1].err


\* C20: no per-database function is ever called, no batch is ever deleted and
\* no commit is ever made with a database name that is not an identifier:
\* such a name is skipped in reap, wisp purge, mail purge and auto-close,
\* and at the end of the run every valid database of the list has been
\* processed in each of the four.
C20_InvalidNamesSkipped ==
    /\ \A k \in 1..Len(dbCalls) : validDBName(dbCalls[k].db)
    /\ \A k \in 1..Len(commits) : validDBName(commits[k].db)
    /\ (wpc \in {"purge_batch", "mail_batch"} => validDBName(CurDB))
    /\ (wpc = "done" =>
          \A db \in ValidDatabases : \A k \in 1..Len(Phases) :
             Attempted(db, Phases[k]))

\* a run over hq, an invalid name and beads has ended with eight calls, four
\* for hq and four for beads, and with a commit in beads
C20_Witness ==
    /\ wpc = "done"
    /\ rc.databases = <<"hq", "bad-name", "beads">>
    /\ Len(dbCalls) = 8
    /\ \E k \in 1..Len(commits) : commits[k].db = "beads"


PhaseNo(phase) == CHOOSE k \in 1..Len(Phases) : Phases[k] = phase

\* the per-database calls that have started and have not returned
InProgress ==
    CASE wpc = "purge_batch" -> {<<CurDB, "purge">>}
      [] wpc = "mail_batch" -> {<<CurDB, "mail">>}
      [] OTHER -> {}

\* C19: within a run the calls for one database return in the order reap,
\* wisp purge, mail purge, auto-close, each at most once; a call that has
\* returned or is in progress for a database was preceded by the return of
\* every earlier phase for that database; and at most one call is in
\* progress at any moment, for a phase that has not returned for its database.
C19_PhasesInOrder ==
    /\ \A i, j \in 1..Len(dbCalls) :
          i < j /\ dbCalls[i].db = dbCalls[j].db
            => PhaseNo(dbCalls[i].phase) < PhaseNo(dbCalls[j].phase)
    /\ \A j \in 1..Len(dbCalls) : \A n \in 1..(PhaseNo(dbCalls[j].phase) - 1) :
          \E i \in 1..(j - 1) :
             dbCalls[i].db = dbCalls[j].db /\ dbCalls[i].phase = Phases[n]
    /\ Cardinality(InProgress) <= 1
    /\ \A c \in InProgress :
          /\ \A n \in 1..(PhaseNo(c[2]) - 1) : Attempted(c[1], Phases[n])
          /\ \A n \in PhaseNo(c[2])..Len(Phases) : ~Attempted(c[1], Phases[n])

\* the mail purge of hq is deleting a batch after the reap and the wisp purge
\* of hq and of beads have returned
C19_Witness ==
    /\ wpc = "mail_batch"
    /\ CurDB = "hq"
    /\ rc.databases = <<"hq", "bad-name", "beads">>
    /\ Len(dbCalls) = 4
    /\ dbCalls[2].db = "beads" /\ dbCalls[2].phase = "reap"
    /\ dbCalls[3].db = "hq" /\ dbCalls[3].phase = "purge"


\* the number of DOLT_COMMIT calls made for phase in db
CommitCount(db, phase) ==
    Cardinality({k \in 1..Len(commits) :
                   commits[k].db = db /\ commits[k].phase = phase})

\* C18: in a run that is not a dry run, for every database and phase whose
\* call has returned, DOLT_COMMIT was called exactly once if the call changed
\* at least one row and returned no error, and not at all if it changed no
\* row, however many batches it deleted; no commit is made for a call that
\* has not returned.
C18_OneCommitPerPhase ==
    ~rc.dryRun =>
      /\ \A k \in 1..Len(dbCalls) :
            LET c == dbCalls[k]
            IN /\ (c.changed /\ ~c.err => CommitCount(c.db, c.phase) = 1)
               /\ (~c.changed => CommitCount(c.db, c.phase) = 0)
      /\ \A k \in 1..Len(commits) : Attempted(commits[k].db, commits[k].phase)

\* the wisp purge of hq has returned without error after two batches, with
\* one commit; the reap of hq changed nothing and made none
C18_Witness ==
    /\ ~rc.dryRun
    /\ wpc = "purge"
    /\ nBatches = 2
    /\ lastErr = "none"
    /\ CommitCount("hq", "purge") = 1
    /\ CommitCount("hq", "reap") = 0
    /\ Attempted("hq", "reap")


(***************************************************************************)
(* Claims about the patrol scheduler and the patrol switch.                *)
(***************************************************************************)
\* the state of the retention run that a tick may restart
runVars == <<rc, wpc, dbIdx, reapErrors, purgeErrors, autoCloseErrors, digestTotal,
             totalDeleted, nBatches, lastErr, mol, dbCalls>>

\* C15: for every patrol at most one invocation of its handler is in progress
\* at any time; a tick that fires while one is in progress is dropped, it
\* starts nothing and leaves the retention run in progress as it is; and a
\* handler is invoked only by the step of a tick, so dropped ticks are never
\* run later: every tick either invoked the handler at once or was dropped.
C15_OneRunPerPatrol ==
    /\ [](\A p \in Patrols :
            /\ running[p] <= 1
            /\ ticks[p] = started[p] + dropped[p])
    /\ [][\A p \in Patrols :
            /\ (running[p] > 0 /\ ticks'[p] # ticks[p]
                   => /\ dropped'[p] = dropped[p] + 1
                      /\ started'[p] = started[p]
                      /\ running'[p] = running[p]
                      /\ UNCHANGED <<runVars, dogpc>>)
            /\ (started'[p] # started[p] \/ running'[p] > running[p]
                   => ticks'[p] = ticks[p] + 1 /\ running[p] = 0)]_vars

\* a tick of the wisp reaper was dropped while a retention run was deleting
\* a batch, and that run is still the only one
C15_Witness ==
    /\ wpc = "purge_batch"
    /\ dropped["wisp_reaper"] = 1
    /\ started["wisp_reaper"] = 1
    /\ running["wisp_reaper"] = 1


\* the block of the patrol exists in the configuration and has enabled = true
PatrolBlock(patrol) ==
    IF patrol = "wisp_reaper" THEN patrolConfig.Patrols.WispReaper
                              ELSE patrolConfig.Patrols.DoctorDog
OptedIn(patrol) ==
    /\ patrolConfig \notin {NilConfig, NilPatrols}
    /\ PatrolBlock(patrol) \notin {NoWispReaper, NoDoctorDog}
    /\ PatrolBlock(patrol).enabled

\* C17: while the wisp_reaper patrol is not enabled (nil configuration, nil
\* patrols section, missing block or enabled = false) the handler of the
\* retention run pours no molecule, calls no per-database function, changes
\* no row and commits nothing, however often it is invoked; while the
\* doctor_dog patrol is not enabled its handler pours no molecule.
C17_PatrolsOptIn ==
    /\ [](/\ (~OptedIn("wisp_reaper")
                => /\ mol = <<>>
                   /\ dbCalls = <<>>
                   /\ commits = <<>>
                   /\ wpc \in {"off", "idle", "done"})
           /\ (~OptedIn("doctor_dog") => dogMols = <<>>))
    /\ [][~OptedIn("wisp_reaper")
            => UNCHANGED <<dbTables, commits, autocommit>>]_vars

\* the WispReaper block is missing and the DoctorDog block has enabled =
\* false; both handlers were invoked and have returned
C17_Witness ==
    /\ patrolConfig = DaemonPatrolConfig(NoWispReaper, DoctorDogConfig(FALSE))
    /\ started["wisp_reaper"] >= 1 /\ wpc = "done"
    /\ started["doctor_dog"] >= 1 /\ dogpc = "done"
    /\ running = [p \in Patrols |-> 0]


(***************************************************************************)
(* Claims about gt daemon start.                                           *)
(***************************************************************************)
\* C16: whenever a call of gt daemon start returns while another daemon
\* than its own child holds the PID file (one that ran before the call, or
\* one that won the race against the child), the call returns success with
\* "already running" and not an error.
C16_ContentionIsSuccess ==
    [][\A c \in Starts :
          (/\ startpc[c] # "returned"
           /\ startpc'[c] = "returned"
           /\ pidFile \notin {NoPid, ChildPid(c)})
             => startResult'[c] = "already running"]_vars


(***************************************************************************)
(* Claims about self-managed completion.                                   *)
(***************************************************************************)
\* C12: in every execution of gt done the MERGE_READY nudge is preceded by
\* the write of agent_state = idle: whenever a polecat's nudge has been
\* sent, a run of its gt done has written idle.
C12_IdleBeforeNudge ==
    \A p \in Polecats : p \in nudgeSent => idleWrites[p] # {}

\* C13: every MR bead that is open is eventually closed by the refinery,
\* whether its nudge arrives, is lost or is never sent and whether the
\* witness is up; and the first poll of the refinery that follows the
\* creation of the bead finds it and the cycle of that poll processes it,
\* so no MR waits longer than to the next patrol cycle.
C13_LostNudgeStillMerged ==
    /\ \A p \in Polecats : (mrBead[p] = "open") ~> (mrBead[p] = "closed")
    /\ [](\A p \in Polecats :
            /\ polls[p] <= 1
            /\ (polls[p] = 1 => mrBead[p] = "closed" \/ (refpc = "merging" /\ p \in queue)))

\* the witness is down, the nudge of a polecat was lost and never arrived,
\* and the refinery has merged the MR in the cycle of its own poll
C13_Witness ==
    \E p \in Polecats :
        /\ ~witnessUp
        /\ p \in nudgesLost
        /\ run[p] = 1
        /\ mrBead[p] = "closed"
        /\ polls[p] = 1

\* a run of gt done that has errored out or crashed, and the step before
\* which it did
Ended(p) == donepc[p] \in {"failed", "crashed"}

MeetsSize(p) ==
    IF rforce THEN Len(logs[p].data) > 0
              ELSE Len(logs[p].data) >= logRotationMaxSize

Gunzip(g) == g[2]
\* the bytes the backups .k.gz .. .1.gz of b hold, in this order
RECURSIVE OldestFirst(_, _)
OldestFirst(b, k) ==
    IF k < 1 THEN <<>>
    ELSE (IF b[k].exists THEN Gunzip(b[k].data) ELSE <<>>) \o OldestFirst(b, k - 1)
\* the bytes of daemon/dolt.log that still exist, oldest first: those of its
\* backups from the highest K down to 1, then those of the log itself
KeptBytes ==
    OldestFirst(gz[DaemonLogs[1]], Cardinality(Suffixes))
        \o logs[DaemonLogs[1]].data

\* C23: starting with no backups and as long as no system call has failed,
\* between rotations the backups of the log are exactly <path>.1.gz ..
\* <path>.m.gz with m <= maxBackups, none of them empty; read from .m.gz down
\* to .1.gz and on into the log they hold the bytes the child wrote in the
\* order it wrote them, without a gap, up to the last byte written (lower K
\* is newer); and while fewer than maxBackups backups exist no byte is lost,
\* so only the oldest rotations are ever discarded.  Each rotation moves
\* .K.gz to .(K+1).gz and puts the whole log into a new .1.gz.
C23_BackupsKeepRotationOrder ==
    /\ [](nFaults = 0 /\ rpc \in {"idle", "stat"} =>
            LET b == gz[DaemonLogs[1]]
                m == Cardinality(Matches(b))
                first == nextByte - Len(KeptBytes)
            IN /\ Matches(b) = 1..m
               /\ m <= logRotationMaxBackups
               /\ \A k \in 1..m : Gunzip(b[k].data) # <<>>
               /\ KeptBytes = [i \in 1..Len(KeptBytes) |-> first + i - 1]
               /\ m < logRotationMaxBackups => first = 1)
    /\ [][nFaults' = 0 /\ rpc = "shift" =>
            /\ ~gz'[CurLog][1].exists
            /\ \A k \in 1..(logRotationMaxBackups - 1) :
                  gz'[CurLog][k + 1] = gz[CurLog][k]]_vars
    /\ [][nFaults' = 0 /\ rpc = "compress" =>
            /\ Gunzip(gz'[CurLog][1].data) = logs[CurLog].data
            /\ \A k \in Suffixes \ {1} : gz'[CurLog][k] = gz[CurLog][k]]_vars

\* four rotations of one byte each are over: the last three are in .1.gz,
\* .2.gz and .3.gz, newest first, and the first is gone
C23_Witness ==
    /\ rpc = "idle"
    /\ nRuns = MaxRuns
    /\ nFaults = 0
    /\ Matches(gz[DaemonLogs[1]]) = 1..logRotationMaxBackups
    /\ \A k \in 1..logRotationMaxBackups :
         gz[DaemonLogs[1]][k].data = Gzip(<<FreshRuns + 1 - k>>)
    /\ FileSize(DaemonLogs[1]) = 0


\* every existing log is under the threshold
AllUnder ==
    \A p \in LogPaths : logs[p].exists => Len(logs[p].data) < logRotationMaxSize
\* a Rotate run that starts with every log under the threshold rotates no
\* file and changes no log and no backup: it starts with nothing rotated,
\* and from the head of its loop it goes to the head of the loop or returns,
\* with the same rotated list, logs and backups
NothingToRotate ==
    [][/\ ~rforce' /\ AllUnder
       /\ rpc = "stat" \/ (rpc = "idle" /\ rpc' = "stat")
       => /\ rotated' = (IF rpc = "idle" THEN <<>> ELSE rotated)
          /\ rpc' \in {"stat", "idle"}
          /\ gz' = gz
          /\ logs' = logs]_vars

TimesReported(p) ==
    Cardinality({i \in 1..Len(rotated) : rotated[i] = p})
    + Cardinality({i \in 1..Len(skipped) : skipped[i] = p})
    + Cardinality({i \in 1..Len(rerrors) : rerrors[i] = p})

\* C25: when a run has returned, every log file it discovered and that still
\* exists is named exactly once in rotated, skipped and errors together, the
\* files listed after a file that failed included; and a result names no
\* file twice at any moment of the run.
C25_EveryFileReportedOnce ==
    /\ rpc = "idle" =>
          \A i \in 1..Len(logFiles) :
             Exists(logFiles[i]) => TimesReported(logFiles[i]) = 1
    /\ \A p \in LogPaths : TimesReported(p) <= 1

\* a run over two logs has returned: the first failed, the second, listed
\* after it, was rotated
C25_Witness ==
    /\ rpc = "idle"
    /\ logFiles = <<DaemonLogs[1], RigLog("gastown")>>
    /\ rerrors = <<DaemonLogs[1]>>
    /\ rotated = <<RigLog("gastown")>>
    /\ skipped = <<>>


\* C26: when `gt daemon rotate-logs` has printed the result of its run, its
\* exit status is 0 if the result contains no errors and non-zero if at
\* least one file failed to rotate.
C26_ExitStatusTellsErrors ==
    rcmd = "returned" => ((rexit = "zero") <=> (rerrors = <<>>))


(***************************************************************************)
(* Further claims about the mail drainer.                                  *)
(***************************************************************************)
\* the candidates whose deletion failed: they are still in the mailbox
FailedDeletions == CandidateIds \cap DOMAIN mailbox

\* C27: when a drain without --dry-run has returned, Delete was called
\* exactly once on every selected candidate and on no other message, whether
\* or not some of the deletions failed; a drain that returned success had no
\* failed deletion, and a drain that listed messages and had no failed
\* deletion returned success.
C27_DeleteOncePerCandidate ==
    drpc = "done" /\ ~mailDrainDryRun =>
        /\ \A m \in DOMAIN deleteCalls :
              deleteCalls[m] = (IF m \in CandidateIds THEN 1 ELSE 0)
        /\ drainResult = "ok" => FailedDeletions = {}
        /\ DOMAIN messages # {} /\ FailedDeletions = {} => drainResult = "ok"

\* two candidates: the deletion of the first failed, the second was deleted
\* all the same, and the drain returned an error
C27_Witness ==
    /\ drpc = "done"
    /\ ~mailDrainDryRun
    /\ Len(candidates) = 2
    /\ candidates[1].id \in DOMAIN mailbox
    /\ candidates[2].id \notin DOMAIN mailbox
    /\ deleteCalls[candidates[1].id] = 1
    /\ deleteCalls[candidates[2].id] = 1
    /\ drainResult = "error"


\* C28: a drain with --dry-run never calls Delete and never changes the
\* mailbox; when it has listed messages and returned, the mailbox holds
\* exactly the messages that were listed and the result is success.
C28_DryRunDeletesNothing ==
    /\ [][mailDrainDryRun => mailbox' = mailbox /\ deleteCalls' = deleteCalls]_vars
    /\ [](mailDrainDryRun /\ drpc = "done" /\ DOMAIN messages # {} =>
            /\ \A m \in DOMAIN deleteCalls : deleteCalls[m] = 0
            /\ mailbox = messages
            /\ drainResult = "ok")

\* a dry run has returned with every message of a full mailbox selected
C28_Witness ==
    /\ drpc = "done"
    /\ mailDrainDryRun
    /\ Len(candidates) = NumMsgs
    /\ mailbox = messages
    /\ drainResult = "ok"


(***************************************************************************)
(* Further claims about the message deduplicator.                          *)
(***************************************************************************)
\* the non-empty ids some returned call was made with
SeenIds == {id \in MessageIDs \ {""} : nFalse[id] + nTrue[id] >= 1}

\* C29: the deduplicator never forgets an id, whatever the capacity hint:
\* an id once recorded stays recorded; for every non-empty id a call returns
\* false only if no call with that id has returned before, and true only if
\* one has returned false; and when no call is in progress Size() is the
\* number of distinct non-empty ids seen.
C29_NeverForgets ==
    /\ [][processed \subseteq processed']_vars
    /\ [][\A id \in MessageIDs \ {""} :
            /\ nFalse'[id] # nFalse[id] => nFalse[id] = 0 /\ nTrue[id] = 0
            /\ nTrue'[id] # nTrue[id] => nFalse[id] = 1]_vars
    /\ []((\A t \in Tasks : dpc[t] = "idle") =>
            /\ Cardinality(processed) = Cardinality(SeenIds)
            /\ SeenIds \subseteq processed)

\* with a capacity hint of 1, two distinct ids have been seen, the first of
\* them twice, and both are still recorded
C29_Witness ==
    /\ maxSize = 1
    /\ \A t \in Tasks : dpc[t] = "idle"
    /\ nFalse["m1"] = 1 /\ nTrue["m1"] = 1
    /\ nFalse["m2"] = 1
    /\ processed = {"m1", "m2"}

\* the number of calls with an id of S that have returned
RECURSIVE ReturnedCalls(_)
ReturnedCalls(S) ==
    IF S = {} THEN 0
    ELSE LET id == CHOOSE x \in S : TRUE
         IN nFalse[id] + nTrue[id] + ReturnedCalls(S \ {id})

\* C30: AlreadyProcessed("") returns false on every call and records
\* nothing: the empty id is never in the map and never answered with true
\* (every call made has returned once no call is in progress, so each call
\* with the empty id returned false), and a call with the empty id leaves
\* the map, and so Size() and the answer for every other id, unchanged.
C30_EmptyIdNotRecorded ==
    /\ []("" \notin processed /\ nTrue[""] = 0)
    /\ [][nFalse'[""] # nFalse[""] =>
            /\ nFalse'[""] = nFalse[""] + 1
            /\ processed' = processed
            /\ \A id \in MessageIDs \ {""} :
                  nFalse'[id] = nFalse[id] /\ nTrue'[id] = nTrue[id]]_vars
    /\ []((\A t \in Tasks : dpc[t] = "idle") => ReturnedCalls(MessageIDs) = nCalls)

\* the empty id has been passed twice, after an id was recorded
C30_Witness ==
    /\ nFalse[""] = 2
    /\ \A t \in Tasks : dpc[t] = "idle"
    /\ processed = {"m1"}
    /\ nFalse["m1"] = 1 /\ nTrue["m1"] = 1

(***************************************************************************)
(* Further claims about the retention engine                               *)
(***************************************************************************)
\* the wisps of db that have a parent-child row whose parent is a wisp of
\* the table
ChildrenOfWisps(db) ==
    {w \in DOMAIN wisps[db] :
       \E wd \in wisp_dependencies[db] :
          /\ wd.issue_id = w /\ wd.type = "parent-child"
          /\ wd.depends_on_id \in DOMAIN wisps[db]}

\* C31: deleting a parent wisp never leaves a surviving child wisp with a
\* parent-child row that points at the missing parent: a wisp that survives
\* a step and keeps its parent-child row keeps its parent in the table.
C31_NoChildStranded ==
    [][\A db \in ServerDBs : \A w \in ChildrenOfWisps(db) :
          w \in DOMAIN wisps'[db] =>
            \A wd \in wisp_dependencies'[db] :
               (wd.issue_id = w /\ wd.type = "parent-child")
               => wd.depends_on_id \in DOMAIN wisps'[db]]_vars

\* the issues of db that carry the gt:message label
Mail(db) == {i \in DOMAIN issues[db] : \E l \in labels[db] :
                                         l.issue_id = i /\ l.label = "gt:message"}

\* the mailCutoff of the first retention run that starts more than
\* defaultMailDeleteAge after this one
LaterMailCutoff == ReapNow + 1

\* C32: the retention engine never deletes mail that nobody closed: a mail
\* row that is not closed stays in the issues table over every step of a
\* run, and the run does not turn it into a row that the mail purge of a
\* later run selects.
C32_UnclosedMailStays ==
    [][\A db \in ServerDBs : \A i \in Mail(db) :
          issues[db][i].status # "closed"
          => /\ i \in DOMAIN issues'[db]
             /\ ~(mailWhere(db, i, LaterMailCutoff))']_vars

\* the number of rows of a table (wisps or issues) over all databases
RECURSIVE RowCount(_, _)
RowCount(table, dbs) ==
    IF dbs = {} THEN 0
    ELSE LET db == CHOOSE x \in dbs : TRUE
         IN Cardinality(DOMAIN table[db]) + RowCount(table, dbs \ {db})

\* the number of rows of a table that this run has closed: the rows whose
\* closed_at is the run's NOW()
RECURSIVE ClosedNow(_, _)
ClosedNow(table, dbs) ==
    IF dbs = {} THEN 0
    ELSE LET db == CHOOSE x \in dbs : TRUE
         IN Cardinality({x \in DOMAIN table[db] : table[db][x].closed_at = ReapNow})
            + ClosedNow(table, dbs \ {db})

\* the rows the batch loop in progress has deleted and not yet returned
DeletedInCall(phase) == IF wpc = phase THEN totalDeleted ELSE 0

\* C33: in a non-dry-run retention run the totals of the cycle summary are
\* the numbers of rows the run closed or deleted: when the summary is
\* logged, reaped is the number of wisps and auto_closed the number of
\* issues the run closed, and over every step the wisps that are left,
\* purged and the deletions of the purge in progress add up to the same
\* number, as do the issues that are left, mail_purged and the deletions of
\* the mail purge in progress.
C33_TotalsFaithful ==
    /\ []((wpc = "report" /\ ~rc.dryRun) =>
            /\ rc.totalReaped = ClosedNow(wisps, ServerDBs)
            /\ rc.totalAutoClosed = ClosedNow(issues, ServerDBs))
    /\ [][~rc.dryRun =>
            /\ RowCount(wisps', ServerDBs) + rc'.totalPurged + DeletedInCall("purge_batch")'
               = RowCount(wisps, ServerDBs) + rc.totalPurged + DeletedInCall("purge_batch")
            /\ RowCount(issues', ServerDBs) + rc'.totalMailPurged
                 + DeletedInCall("mail_batch")'
               = RowCount(issues, ServerDBs) + rc.totalMailPurged
                 + DeletedInCall("mail_batch")]_vars

\* the calls of phase that have returned an error
FailedCalls(phase) ==
    {k \in 1..Len(dbCalls) : dbCalls[k].phase = phase /\ dbCalls[k].err}

\* how often step is recorded on the molecule with the given result
Recorded(step, result) ==
    Cardinality({k \in 1..Len(mol) : mol[k] = <<step, result>>})

\* what the molecule should record for a step whose calls are those of phases
StepResult(phases) ==
    IF \E phase \in phases : FailedCalls(phase) # {} THEN "failed" ELSE "closed"

\* C37: in a run that got past scan, each of the steps reap, purge and
\* auto-close is recorded exactly once when the run ends, as failed if and
\* only if at least one database had an error in that step; for the purge
\* step the errors of the wisp purge and of the mail purge both count.
C37_StepsRecordErrors ==
    (wpc = "done" /\ Len(mol) > 2) =>
       /\ Recorded("reap", StepResult({"reap"})) = 1
       /\ Recorded("reap", "failed") + Recorded("reap", "closed") = 1
       /\ Recorded("purge", StepResult({"purge", "mail"})) = 1
       /\ Recorded("purge", "failed") + Recorded("purge", "closed") = 1
       /\ Recorded("auto-close", StepResult({"auto-close"})) = 1
       /\ Recorded("auto-close", "failed") + Recorded("auto-close", "closed") = 1

(***************************************************************************)
(* Further claims about the log rotator                                    *)
(***************************************************************************)
\* the bytes that are in a log file or in a backup of one
BytesOnDisk ==
    UNION {{logs[p].data[i] : i \in 1..Len(logs[p].data)} :
             p \in {q \in LogPaths : Exists(q)}}
    \cup UNION {{Gunzip(gz[x[1]][x[2]].data)[i] :
                   i \in 1..Len(Gunzip(gz[x[1]][x[2]].data))} :
                  x \in {y \in LogPaths \X Suffixes : gz[y[1]][y[2]].exists}}

\* C34: copy-truncate rotation loses no log data under a concurrent writer:
\* while no system call fails, every byte the children have written is in a
\* backup or still in a log file, whenever they wrote it.
C34_NoByteLost ==
    nFaults = 0 => \A b \in 1..(nextByte - 1) : b \in BytesOnDisk

\* C35: copyTruncateRotate truncates the log only after its complete content
\* has been written to <path>.1.gz: a step that empties a log finds the whole
\* content in .1.gz, and when the compression step leaves .1.gz without the
\* whole content the rotation ends there, the file is added to errors and
\* the log keeps its content.
C35_TruncateOnlyAfterFullCopy ==
    /\ [][\A p \in LogPaths :
            (Exists(p) /\ logs[p].data # <<>> /\ logs'[p].data = <<>>)
            => /\ gz[p][1].exists
               /\ Gunzip(gz[p][1].data) = logs[p].data]_vars
    /\ [][(/\ rpc = "compress" /\ rpc' # "compress"
           /\ ~(gz'[CurLog][1].exists
                /\ Gunzip(gz'[CurLog][1].data) = logs[CurLog].data))
          => /\ rpc' = "stat"
             /\ rerrors' = Append(rerrors, CurLog)
             /\ rotated' = rotated
             /\ logs' = logs]_vars

\* the wisps of db that the reap step of this run has closed
ReapedNow(db) ==
    {w \in DOMAIN wisps[db] :
       wisps[db][w].status = "closed" /\ wisps[db][w].closed_at = ReapNow}

\* C36: reap happens before purge and never in the same run: a wisp that
\* the reap step of the run has closed stays in the table over every later
\* step of the run, and every wisp a step deletes was closed before this
\* run, more than delete_age before the run's time.
C36_ReapThenPurgeLater ==
    [][\A db \in ServerDBs :
         /\ ReapedNow(db) \subseteq DOMAIN wisps'[db]
         /\ \A w \in DOMAIN wisps[db] \ DOMAIN wisps'[db] :
              /\ wisps[db][w].closed_at # NullTime
              /\ ReapNow - wisps[db][w].closed_at > defaultWispDeleteAge]_vars

\* a run has closed a stale wisp in its reap step and deleted an old closed
\* wisp in its purge step; the wisp it closed is still there when it ends
C36_Witness ==
    /\ wpc = "done" /\ ~rc.dryRun
    /\ rc.totalReaped = 1 /\ rc.totalPurged = 1
    /\ ReapedNow("hq") # {}

\* after the step some auxiliary table of the wisps of db holds a row
\* whose issue_id is w
WispAuxLeft(db, w) ==
    \/ \E t \in {"wisp_labels", "wisp_comments", "wisp_events"} : w \in auxRows'[db][t]
    \/ \E wd \in wisp_dependencies'[db] : wd.issue_id = w

\* after the step some auxiliary table of the issues of db holds a row
\* whose issue_id is i
IssueAuxLeft(db, i) ==
    \/ \E t \in {"comments", "events"} : i \in auxRows'[db][t]
    \/ \E l \in labels'[db] : l.issue_id = i
    \/ \E dp \in dependencies'[db] : dp.issue_id = i

\* the step deletes no primary row whose issue_id is still in an auxiliary
\* table afterwards
NoAuxLeftBehind ==
    \A db \in ServerDBs :
       /\ \A w \in DOMAIN wisps[db] \ DOMAIN wisps'[db] : ~WispAuxLeft(db, w)
       /\ \A i \in DOMAIN issues[db] \ DOMAIN issues'[db] : ~IssueAuxLeft(db, i)

FailedWithAutocommitOff ==
    {k \in 1..Len(dbCalls) :
       /\ dbCalls[k].err
       /\ dbCalls[k].db \in ServerDBs
       /\ \/ dbCalls[k].phase \in {"purge", "mail"} /\ dbCalls[k].changed
          \/ dbCalls[k].phase = "reap" /\ dbCalls[k].changed}

Signalled == {reloadSignals[k].call : k \in 1..Len(reloadSignals)}

\* C40: gt daemon clear-backoff <agent> clears the crash-loop state on disk
\* before it signals the daemon: when a reload signal is sent the counter of
\* the agent is cleared on disk, the daemon that reloads its restart
\* tracker on the signal finds the agent's counter cleared, and a call
\* whose clearing of the disk state failed has sent no signal.
C40_ClearThenSignal ==
    /\ [][Len(reloadSignals') > Len(reloadSignals) => crashDisk[cbAgent] = 0]_vars
    /\ [][nHandled' > nHandled => crashMem'[reloadSignals[nHandled'].agent] = 0]_vars
    /\ [](cbResult = "error: clearing backoff" => nClears \notin Signalled)

\* the daemon has reloaded its tracker on the signal of a call for deacon,
\* which had crashed MaxCrashCount times in a row, and an earlier call for
\* mayor failed to clear the disk state: mayor's counters are as they were
C40_Witness ==
    /\ nHandled = 1 /\ Len(reloadSignals) = 1
    /\ reloadSignals[1] = [call |-> 2, agent |-> "deacon"]
    /\ cbResult = "daemon reloaded"
    /\ crashMem = [a \in Agents |-> IF a = "deacon" THEN 0 ELSE MaxCrashCount]
    /\ crashDisk = crashMem

=========================================================================
